---------------------------- MODULE Spec2Model ----------------------------
(***************************************************************************)
(* Model of native/jpn_to_phoneme_ffi.cpp: the UTF-8 decoder, the          *)
(* code-point trie, the furigana segmenter, the word segmenter, the        *)
(* phoneme converter and the C entry points built on the process-wide      *)
(* FFIState.                                                               *)
(*                                                                         *)
(* A std::string is a sequence of bytes (0..255).  Positions are 0-based   *)
(* as in the source; element i of a vector v is v[i + 1].                  *)
(***************************************************************************)
EXTENDS Integers, Sequences, FiniteSets, TLC

VARIABLES
    \* ---- one conversion, step by step (specification Spec) ----
    text,            \* the input bytes of the conversion
    oob,             \* the byte a read past the string's terminator, or of a
                     \* variable no read has filled, yields
    converter,       \* the PhonemeConverter in use (a record)
    segmenter,       \* the WordSegmenter in use, or NullPtr
    pc,              \* position of the conversion
    segments,        \* result of parse_furigana_segments
    branches,        \* per iteration of its main loop: branch taken, cursor before, after
    words,           \* result of segment_from_segments
    widx,            \* index of the next word in convert_with_segmentation
    chars,           \* PhonemeConverter::convert: the decoded token
    pos,             \* PhonemeConverter::convert: the cursor
    result,          \* PhonemeConverter::convert: the output built so far
    joined,          \* convert_with_segmentation: the joined output
    \* ---- the FFI entry points, one whole call per step (SpecFFI) ----
    ffi,             \* FFIState: converter, segmenter, use_segmentation, last_error
    call,            \* the last completed call: name, arguments, return value, output
    ready,           \* history: the most recent init/cleanup was an init that returned 1
    discarded,       \* history: an init that returned 0 replaced a loaded dictionary
                     \* and no init has returned 1 since
    \* ---- the FFI entry points on several threads (SpecThreads) ----
    heap,            \* per object: "free", "loading", "loaded", "destroyed"
    gconv,           \* FFIState::converter: an object id, or 0 for nullptr
    gseg,            \* FFIState::segmenter: an object id, or 0 for nullptr
    init_mutex,      \* the owner of FFIState::init_mutex, or 0
    tpc,             \* per thread: its position
    tconv,           \* per thread: the converter a running conversion dereferenced
    tseg,            \* per thread: the segmenter a running conversion dereferenced
    last_error,      \* FFIState::last_error, the one std::string of the process
    own_error,       \* history, per thread: what last_error would hold had only
                     \* this thread's calls written it
    got_error,       \* per thread: what its running jpn_phoneme_get_error returned
    \* ---- the two dictionary loaders on the same pairs (SpecLoad) ----
    pairs,           \* the (key, value) pairs both files are written from
    from_binary,     \* the converter try_load_binary_format built, or NullPtr
    from_json,       \* the converter load_from_json built, or NullPtr
    \* ---- the two tries, one call per step (SpecTrie) ----
    ptrie,           \* PhonemeConverter::root
    wtrie,           \* WordSegmenter::root
    inserted,        \* history: the (key, value) of each PhonemeConverter::insert
    added,           \* history: the word of each WordSegmenter::insert_word
    asked            \* the last contains_word call: its word and return value

pipeVars == <<text, oob, converter, segmenter, pc, segments, branches, words,
              widx, chars, pos, result, joined>>
pipeRest == <<text, converter, segmenter, pc, segments, branches, words,
              widx, chars, pos, result, joined>>
ffiVars == <<ffi, call, ready, discarded>>
errVars == <<last_error, own_error, got_error>>
thrVars == <<heap, gconv, gseg, init_mutex, tpc, tconv, tseg, errVars>>
loadVars == <<pairs, from_binary, from_json>>
trieVars == <<ptrie, wtrie, inserted, added, asked>>
vars == <<pipeVars, ffiVars, thrVars, loadVars, trieVars>>

-----------------------------------------------------------------------------
(* Bounds of the model *)

\* longest input, in chunks of InputChunks
MaxChunks == 3
\* longest raw byte input
MaxBytes == 2
\* longest input of an FFI call, in chunks of InputChunks
MaxCallChunks == 2
\* pairs in a dictionary file
MaxPairs == 2
\* threads calling the FFI concurrently
NumThreads == 2
\* converter and segmenter objects ever allocated
MaxObjects == 3

-----------------------------------------------------------------------------
(* Bytes and code points *)

Min(a, b) == IF a < b THEN a ELSE b

\* the element of a one-element set; {e(x) : x \in {v}} computes v once
Only(S) == CHOOSE x \in S : TRUE

\* UTF-8 of the characters the inputs and dictionaries are made of
Str_ha == <<227, 129, 175>>        \* U+306F, hiragana ha
Str_te == <<227, 129, 166>>        \* U+3066, hiragana te
Str_no == <<227, 129, 174>>        \* U+306E, hiragana no
Str_otoko == <<231, 148, 183>>     \* U+7537, kanji
Str_open == <<227, 128, 140>>      \* U+300C
Str_close == <<227, 128, 141>>     \* U+300D
Str_maru == <<227, 128, 130>>      \* U+3002, ideographic full stop
Str_space == <<32>>
Str_wa == <<119, 97>>              \* "wa"

\* str[i] of a std::string: the terminator at i = size(), and whatever the
\* buffer holds beyond it (an out-of-bounds read)
ByteAt(str, i) ==
    IF i < Len(str) THEN str[i + 1]
    ELSE IF i = Len(str) THEN 0
    ELSE oob

\* std::string::substr(start, count), start <= size()
substr(str, start, count) ==
    SubSeq(str, start + 1, Min(start + count, Len(str)))

\* get_code_point(str, pos): the code point and the new pos
get_code_point(str, p) ==
    LET c == ByteAt(str, p) IN
    IF c < 128 THEN [cp |-> c, pos |-> p + 1]
    ELSE IF c \div 32 = 6 THEN
        [cp |-> (c % 32) * 64 + (ByteAt(str, p + 1) % 64), pos |-> p + 2]
    ELSE IF c \div 16 = 14 THEN
        [cp |-> (c % 16) * 4096 + (ByteAt(str, p + 1) % 64) * 64
                  + (ByteAt(str, p + 2) % 64),
         pos |-> p + 3]
    ELSE IF c \div 8 = 30 THEN
        [cp |-> (c % 8) * 262144 + (ByteAt(str, p + 1) % 64) * 4096
                  + (ByteAt(str, p + 2) % 64) * 64 + (ByteAt(str, p + 3) % 64),
         pos |-> p + 4]
    ELSE [cp |-> c, pos |-> p + 1]

\* the pre-decoding loop: chars and byte_positions (one longer than chars)
RECURSIVE DecodeFrom(_, _, _, _)
DecodeFrom(str, byte_pos, cs, bps) ==
    IF byte_pos < Len(str)
    THEN Only({DecodeFrom(str, r.pos, r.cs, r.bps) :
                 r \in {[pos |-> get_code_point(str, byte_pos).pos,
                         cs |-> Append(cs, get_code_point(str, byte_pos).cp),
                         bps |-> Append(bps, byte_pos)]}})
    ELSE [chars |-> cs, byte_positions |-> Append(bps, byte_pos)]

Decode(str) == DecodeFrom(str, 0, <<>>, <<>>)

\* static_cast<char>(x): the low eight bits
ToChar(x) == x % 256

\* the re-encoding of one unmatched code point in PhonemeConverter::convert
EncodeCp(cp) ==
    IF cp < 128 THEN <<ToChar(cp)>>
    ELSE IF cp < 2048 THEN <<ToChar(192 + (cp \div 64)), ToChar(128 + (cp % 64))>>
    ELSE IF cp < 65536 THEN
        <<ToChar(224 + (cp \div 4096)), ToChar(128 + ((cp \div 64) % 64)),
          ToChar(128 + (cp % 64))>>
    ELSE <<ToChar(240 + (cp \div 262144)), ToChar(128 + ((cp \div 4096) % 64)),
           ToChar(128 + ((cp \div 64) % 64)), ToChar(128 + (cp % 64))>>

-----------------------------------------------------------------------------
(* TrieNode, PhonemeConverter::insert, WordSegmenter::insert_word *)

\* A trie is its set of nodes, each named by the code points on the way from
\* the root (the root is <<>>), with each node's Optional<std::string> phoneme.
EmptyNode == [has_value |-> FALSE, phoneme |-> <<>>]
EmptyTrie == <<>> :> EmptyNode

\* a null unique_ptr / a null TrieNode*
NullPtr == [null |-> TRUE]

insert(root, key, phoneme) ==
    LET cs == Decode(key).chars
        path == {SubSeq(cs, 1, n) : n \in 0..Len(cs)}
    IN \* the terminal node's value is overwritten, existing nodes are kept,
       \* missing nodes on the path are created empty
       (cs :> [has_value |-> TRUE, phoneme |-> phoneme])
           @@ root @@ [p \in path |-> EmptyNode]

\* WordSegmenter::insert_word: the marker value is the empty string
insert_word(root, word) == insert(root, word, <<>>)

\* the decoding loop inside contains_word: a byte that starts no sequence is
\* skipped, no code point is pushed for it
RECURSIVE contains_word_chars(_, _, _)
contains_word_chars(word, byte_pos, cs) ==
    IF byte_pos < Len(word)
    THEN LET c == ByteAt(word, byte_pos) IN
         IF c < 128 \/ c \div 32 = 6 \/ c \div 16 = 14 \/ c \div 8 = 30
         THEN Only({contains_word_chars(word, r.pos, Append(cs, r.cp)) :
                      r \in {get_code_point(word, byte_pos)}})
         ELSE contains_word_chars(word, byte_pos + 1, cs)
    ELSE cs

\* WordSegmenter::contains_word: the walk fails at the first missing child
contains_word(root, word) ==
    IF word = <<>> THEN FALSE
    ELSE \E cs \in {contains_word_chars(word, 0, <<>>)} :
             /\ cs \in DOMAIN root
             /\ root[cs].has_value

\* a dictionary is the list of (key, value) pairs a loader inserts, in order
RECURSIVE InsertAll(_, _)
InsertAll(root, entries) ==
    IF entries = <<>> THEN root
    ELSE Only({InsertAll(n, Tail(entries)) :
                 n \in {insert(root, Head(entries)[1], Head(entries)[2])}})

\* PhonemeConverter() followed by a load of `entries`
NewConverter(entries) ==
    [root |-> InsertAll(EmptyTrie, entries), entry_count |-> Len(entries)]

\* WordSegmenter() followed by load_from_file of a file with these lines
RECURSIVE StripLine(_)
StripLine(word) ==
    IF word # <<>> /\ word[Len(word)] \in {13, 10, 32}
    THEN StripLine(SubSeq(word, 1, Len(word) - 1))
    ELSE word

RECURSIVE load_from_file(_, _)
load_from_file(seg, lines) ==
    IF lines = <<>> THEN seg
    ELSE LET word == StripLine(Head(lines)) IN
         IF word # <<>>
         THEN load_from_file([root |-> insert_word(seg.root, word),
                              word_count |-> seg.word_count + 1], Tail(lines))
         ELSE load_from_file(seg, Tail(lines))

NewSegmenter(lines) == load_from_file([root |-> EmptyTrie, word_count |-> 0], lines)

-----------------------------------------------------------------------------
(* The trie walk shared by the converter and the segmenters *)

NoMatch == [length |-> 0, phoneme |-> <<>>]

\* for (i = from; i < chars.size() && current != nullptr; i++): descend from
\* node `current`, remembering the last node passed that carries a value;
\* the recorded length counts from `start`
RECURSIVE WalkLongest(_, _, _, _, _, _)
WalkLongest(root, cs, start, i, current, best) ==
    IF i < Len(cs) /\ Append(current, cs[i + 1]) \in DOMAIN root
    THEN Only({WalkLongest(root, cs, start, i + 1, n.child, n.best) :
                 n \in {[child |-> Append(current, cs[i + 1]),
                         best |-> IF root[Append(current, cs[i + 1])].has_value
                                  THEN [length |-> i - start + 1,
                                        phoneme |-> root[Append(current, cs[i + 1])].phoneme]
                                  ELSE best]}})
    ELSE best

-----------------------------------------------------------------------------
(* PhonemeConverter::convert *)

\* a walk that stops at the first node carrying a value
RECURSIVE WalkFirst(_, _, _, _, _)
WalkFirst(root, cs, start, i, current) ==
    IF i < Len(cs) /\ Append(current, cs[i + 1]) \in DOMAIN root
    THEN LET child == Append(current, cs[i + 1]) IN
         IF root[child].has_value
         THEN [length |-> i - start + 1, phoneme |-> root[child].phoneme]
         ELSE WalkFirst(root, cs, start, i + 1, child)
    ELSE NoMatch

ConvertWalk_first(root, cs, p) == WalkFirst(root, cs, p, p, <<>>)

\* the inner for loop of convert at cursor p
ConvertWalk(root, cs, p) == WalkLongest(root, cs, p, p, <<>>, NoMatch)

\* an iteration that leaves the cursor on a character no key starts with
ConvertIter_stuck(root, cs, p, res) ==
    Only({IF m.length > 0
          THEN [pos |-> p + m.length, result |-> res \o m.phoneme]
          ELSE [pos |-> p, result |-> res] :
            m \in {ConvertWalk(root, cs, p)}})

\* one iteration of the while loop of convert: the new cursor and output
ConvertIter(root, cs, p, res) ==
    Only({IF m.length > 0
          THEN [pos |-> p + m.length, result |-> res \o m.phoneme]
          ELSE [pos |-> p + 1, result |-> res \o EncodeCp(cs[p + 1])] :
            m \in {ConvertWalk(root, cs, p)}})

RECURSIVE ConvertLoop(_, _, _, _)
ConvertLoop(root, cs, p, res) ==
    IF p < Len(cs)
    THEN Only({ConvertLoop(root, cs, n.pos, n.result) :
                 n \in {ConvertIter(root, cs, p, res)}})
    ELSE res

convert(conv, japanese_text) ==
    Only({ConvertLoop(conv.root, cs, 0, <<>>) : cs \in {Decode(japanese_text).chars}})

-----------------------------------------------------------------------------
(* TextSegment and WordSegmenter::segment_from_segments *)

\* a hint segment that loses its surface
FuriganaHint_nosurface(t, r, at) ==
    [type |-> "FURIGANA_HINT", text |-> <<>>, reading |-> r, original_pos |-> at]

NormalText(t, at) ==
    [type |-> "NORMAL_TEXT", text |-> t, reading |-> <<>>, original_pos |-> at]
FuriganaHint(t, r, at) ==
    [type |-> "FURIGANA_HINT", text |-> t, reading |-> r, original_pos |-> at]

\* ' ', '\t', '\n', '\r'
IsSpace(cp) == cp \in {32, 9, 10, 13}

\* the grammar-run loop: the first position at or after p where the run stops
RECURSIVE GrammarRun(_, _, _)
GrammarRun(root, cs, p) ==
    IF p < Len(cs)
    THEN IF IsSpace(cs[p + 1]) THEN p
         ELSE IF WalkLongest(root, cs, p, p, <<>>, NoMatch).length > 0 THEN p
         ELSE GrammarRun(root, cs, p + 1)
    ELSE p

\* the longer of the matches of the two tries at p
TokenMatch_max(root, phoneme_root, cs, p) ==
    LET m1 == WalkLongest(root, cs, p, p, <<>>, NoMatch).length
        m2 == IF phoneme_root # NullPtr
              THEN WalkLongest(phoneme_root, cs, p, p, <<>>, NoMatch).length
              ELSE 0
    IN IF m1 > m2 THEN m1 ELSE m2

\* the match length at p: the word trie first, the phoneme trie as fallback
TokenMatch(root, phoneme_root, cs, p) ==
    LET m1 == WalkLongest(root, cs, p, p, <<>>, NoMatch).length IN
    IF m1 = 0 /\ phoneme_root # NullPtr
    THEN WalkLongest(phoneme_root, cs, p, p, <<>>, NoMatch).length
    ELSE m1

\* an iteration whose matched token ends one code point early
SegmentIter_short(root, phoneme_root, txt, cs, bps, p, ws) ==
    IF IsSpace(cs[p + 1]) THEN [pos |-> p + 1, words |-> ws]
    ELSE LET match_length == TokenMatch(root, phoneme_root, cs, p) IN
         IF match_length > 0
         THEN [pos |-> p + match_length,
               words |-> Append(ws, substr(txt, bps[p + 1],
                                           bps[p + match_length] - bps[p + 1]))]
         ELSE LET stop == GrammarRun(root, cs, p)
                  grammar_length == stop - p
              IN [pos |-> stop,
                  words |-> IF grammar_length > 0
                            THEN Append(ws, substr(txt, bps[p + 1],
                                                   bps[stop + 1] - bps[p + 1]))
                            ELSE ws]

\* one iteration of the while loop over a normal segment
SegmentIter(root, phoneme_root, txt, cs, bps, p, ws) ==
    IF IsSpace(cs[p + 1]) THEN [pos |-> p + 1, words |-> ws]
    ELSE LET match_length == TokenMatch(root, phoneme_root, cs, p) IN
         IF match_length > 0
         THEN [pos |-> p + match_length,
               words |-> Append(ws, substr(txt, bps[p + 1],
                                           bps[p + match_length + 1] - bps[p + 1]))]
         ELSE LET stop == GrammarRun(root, cs, p)
                  grammar_length == stop - p
              IN [pos |-> stop,
                  words |-> IF grammar_length > 0
                            THEN Append(ws, substr(txt, bps[p + 1],
                                                   bps[stop + 1] - bps[p + 1]))
                            ELSE ws]

RECURSIVE SegmentLoop(_, _, _, _, _, _, _)
SegmentLoop(root, phoneme_root, txt, cs, bps, p, ws) ==
    IF p < Len(cs)
    THEN Only({SegmentLoop(root, phoneme_root, txt, cs, bps, n.pos, n.words) :
                 n \in {SegmentIter(root, phoneme_root, txt, cs, bps, p, ws)}})
    ELSE ws

\* the words one segment adds
SegmentOne(root, phoneme_root, segment, ws) ==
    IF segment.type = "FURIGANA_HINT" THEN Append(ws, segment.reading)
    ELSE Only({SegmentLoop(root, phoneme_root, segment.text, d.chars,
                           d.byte_positions, 0, ws) :
                 d \in {Decode(segment.text)}})

RECURSIVE SegmentAll(_, _, _, _)
SegmentAll(root, phoneme_root, segs, ws) ==
    IF segs = <<>> THEN ws
    ELSE Only({SegmentAll(root, phoneme_root, Tail(segs), n) :
                 n \in {SegmentOne(root, phoneme_root, Head(segs), ws)}})

segment_from_segments(seg, segs, phoneme_root) ==
    SegmentAll(seg.root, phoneme_root, segs, <<>>)

-----------------------------------------------------------------------------
(* parse_furigana_segments *)

\* std::string::npos
NPOS == -1
\* U+300C and U+300D, the reading brackets
BRACKET_OPEN == 12300
BRACKET_CLOSE == 12301

\* for (i = from; i < chars.size(); i++) if (chars[i] == cp) ...: first index
RECURSIVE FindCp(_, _, _)
FindCp(cs, from, cp) ==
    IF from < Len(cs)
    THEN IF cs[from + 1] = cp THEN from ELSE FindCp(cs, from + 1, cp)
    ELSE NPOS

\* is_kana_cp: hiragana U+3040..U+309F or katakana U+30A0..U+30FF
is_kana_cp(cp) == (cp >= 12352 /\ cp <= 12447) \/ (cp >= 12448 /\ cp <= 12543)

\* the punctuation that always ends the backward scan
IsJapaneseBoundary(cp) == cp \in {12301, 12289, 12290, 65281, 65311, 65289, 65341}
IsAsciiBoundary(cp) ==
    cp < 128 /\ cp \in {46, 44, 33, 63, 59, 58, 40, 41, 91, 93, 123, 125,
                        34, 39, 45, 47, 92, 124, 32, 9, 10, 13}

\* the "CJK kanji ranges" test of the has_kanji_before loop
IsKanjiCp(cp) == cp >= 19968 \/ (cp >= 13312 /\ cp <= 40959)

\* first pass: the last non-kana character before the bracket
RECURSIVE SkipKanaBack(_, _, _)
SkipKanaBack(cs, p, last_kanji_pos) ==
    IF last_kanji_pos > p /\ is_kana_cp(cs[last_kanji_pos])
    THEN SkipKanaBack(cs, p, last_kanji_pos - 1)
    ELSE last_kanji_pos

LastKanjiPos(cs, p, bracket_open) ==
    LET l == SkipKanaBack(cs, p, bracket_open) IN
    IF l > p THEN l - 1 ELSE l

\* has_kanji_before: a kanji somewhere in chars[p .. search_pos)
HasKanjiBefore(cs, p, search_pos) ==
    \E check_pos \in (p + 1)..search_pos :
        ~is_kana_cp(cs[check_pos]) /\ IsKanjiCp(cs[check_pos])

\* second pass: backward from the last kanji to the word boundary
RECURSIVE BackScan(_, _, _, _)
BackScan(cs, p, search_pos, word_start) ==
    IF search_pos > p
    THEN LET sp == search_pos - 1
             cp == cs[sp + 1]
         IN IF IsJapaneseBoundary(cp) \/ IsAsciiBoundary(cp) THEN sp + 1
            ELSE IF is_kana_cp(cp) /\ ~HasKanjiBefore(cs, p, sp) THEN sp + 1
            ELSE BackScan(cs, p, sp, sp)
    ELSE word_start

WordStart(cs, p, bracket_open) ==
    LET last_kanji_pos == LastKanjiPos(cs, p, bracket_open) IN
    BackScan(cs, p, last_kanji_pos, last_kanji_pos)

\* whitespace trimming of the reading, on code points
RECURSIVE TrimStart(_, _, _, _)
TrimStart(cs, reading_start, trim_start, trim_end) ==
    IF trim_start < trim_end /\ IsSpace(cs[reading_start + trim_start + 1])
    THEN TrimStart(cs, reading_start, trim_start + 1, trim_end)
    ELSE trim_start

RECURSIVE TrimEnd(_, _, _, _)
TrimEnd(cs, reading_start, trim_start, trim_end) ==
    IF trim_end > trim_start /\ IsSpace(cs[reading_start + trim_end])
    THEN TrimEnd(cs, reading_start, trim_start, trim_end - 1)
    ELSE trim_end

\* "walk trie through kanji characters first": on a missing child the loop
\* breaks and `current` stays at the last node reached
RECURSIVE WalkSurface(_, _, _, _, _)
WalkSurface(root, cs, i, bracket_open, current) ==
    IF i < bracket_open /\ Append(current, cs[i + 1]) \in DOMAIN root
    THEN WalkSurface(root, cs, i + 1, bracket_open, Append(current, cs[i + 1]))
    ELSE current

\* compound detection: the match length after the closing bracket
CompoundMatch(seg, cs, word_start, bracket_open, after_bracket) ==
    IF seg # NullPtr /\ after_bracket < Len(cs)
    THEN LET current == WalkSurface(seg.root, cs, word_start, bracket_open, <<>>) IN
         WalkLongest(seg.root, cs, after_bracket, after_bracket, current, NoMatch).length
    ELSE 0

\* one iteration of the main while loop at cursor p: the segments it pushes,
\* the new cursor, whether it breaks out of the loop, and the branch taken
ParseIter(txt, cs, bps, seg, p) ==
    LET bracket_open == FindCp(cs, p, BRACKET_OPEN)
        rest == NormalText(substr(txt, bps[p + 1], bps[Len(cs) + 1] - bps[p + 1]),
                           bps[p + 1])
    IN
    IF bracket_open = NPOS
    THEN [pos |-> p, push |-> <<rest>>, stop |-> TRUE, branch |-> "rest"]
    ELSE
    LET bracket_close == FindCp(cs, bracket_open + 1, BRACKET_CLOSE) IN
    IF bracket_close = NPOS
    THEN [pos |-> p, push |-> <<rest>>, stop |-> TRUE, branch |-> "unclosed"]
    ELSE
    LET word_start == WordStart(cs, p, bracket_open)
        before == IF word_start > p
                  THEN <<NormalText(substr(txt, bps[p + 1],
                                           bps[word_start + 1] - bps[p + 1]),
                                    bps[p + 1])>>
                  ELSE <<>>
        kanji_start_byte == bps[word_start + 1]
        kanji == substr(txt, kanji_start_byte, bps[bracket_open + 1] - kanji_start_byte)
        reading_start == bracket_open + 1
        reading_end == bracket_close
        trim_start == TrimStart(cs, reading_start, 0, reading_end - reading_start)
        trim_end == TrimEnd(cs, reading_start, trim_start, reading_end - reading_start)
    IN
    IF trim_start >= trim_end
    THEN [pos |-> bracket_close + 1, push |-> before, stop |-> FALSE,
          branch |-> "empty"]
    ELSE
    LET trimmed_start_byte == bps[reading_start + trim_start + 1]
        trimmed_end_byte == bps[reading_start + trim_end + 1]
        reading == substr(txt, trimmed_start_byte, trimmed_end_byte - trimmed_start_byte)
        after_bracket == bracket_close + 1
        match_length == CompoundMatch(seg, cs, word_start, bracket_open, after_bracket)
    IN
    IF match_length > 0
    THEN LET compound_end_byte == bps[after_bracket + match_length + 1]
             compound == reading \o substr(txt, bps[after_bracket + 1],
                                           compound_end_byte - bps[after_bracket + 1])
         IN [pos |-> after_bracket + match_length,
             push |-> Append(before, NormalText(compound, kanji_start_byte)),
             stop |-> FALSE, branch |-> "compound"]
    ELSE [pos |-> bracket_close + 1,
          push |-> Append(before, FuriganaHint(kanji, reading, kanji_start_byte)),
          stop |-> FALSE, branch |-> "hint"]

RECURSIVE ParseLoop(_, _, _, _, _, _, _)
ParseLoop(txt, cs, bps, seg, p, segs, trace) ==
    IF p < Len(cs)
    THEN Only({IF n.stop
               THEN [segments |-> segs \o n.push, branches |-> Append(trace, n.taken)]
               ELSE ParseLoop(txt, cs, bps, seg, n.pos, segs \o n.push,
                              Append(trace, n.taken)) :
                 n \in {[pos |-> i.pos, push |-> i.push, stop |-> i.stop,
                         taken |-> [branch |-> i.branch, at |-> p, next |-> i.pos]] :
                           i \in {ParseIter(txt, cs, bps, seg, p)}}})
    ELSE [segments |-> segs, branches |-> trace]

\* the segments, with the branch each iteration took, the cursor it started
\* at and the cursor it left
ParseTrace(txt, seg) ==
    Only({ParseLoop(txt, d.chars, d.byte_positions, seg, 0, <<>>, <<>>) :
            d \in {Decode(txt)}})

parse_furigana_segments(txt, seg) == ParseTrace(txt, seg).segments

-----------------------------------------------------------------------------
(* SegmentedConversion::convert_with_segmentation *)

\* the phoneme output of one word: the topic particle is special-cased
WordPhonemes(conv, word) ==
    IF word = Str_ha THEN Str_wa ELSE convert(conv, word)

\* a join without separators
RECURSIVE JoinWords_nosep(_, _, _, _)
JoinWords_nosep(conv, ws, i, res) ==
    IF i < Len(ws)
    THEN JoinWords_nosep(conv, ws, i + 1, res \o WordPhonemes(conv, ws[i + 1]))
    ELSE res

RECURSIVE JoinWords(_, _, _, _)
JoinWords(conv, ws, i, res) ==
    IF i < Len(ws)
    THEN Only({JoinWords(conv, ws, i + 1, n) :
                 n \in {(IF i > 0 THEN res \o Str_space ELSE res)
                            \o WordPhonemes(conv, ws[i + 1])}})
    ELSE res

convert_with_segmentation(conv, japanese_text, seg) ==
    Only({JoinWords(conv, ws, 0, <<>>) :
            ws \in {segment_from_segments(
                        seg, parse_furigana_segments(japanese_text, seg), conv.root)}})

-----------------------------------------------------------------------------
(* Dictionaries and inputs of the model *)

PhonemeEntries ==
    << <<Str_ha, <<104, 97>>>>,                         \* ha
       <<Str_ha \o Str_te, <<104, 97, 116, 101>>>>,     \* hate
       <<Str_te, <<116, 101>>>>,                        \* te
       <<Str_otoko, <<111>>>>,                          \* o
       <<Str_otoko \o Str_ha \o Str_te, <<120>>>> >>    \* x

Converters == {NewConverter(<<>>), NewConverter(PhonemeEntries)}

WordFiles == { <<Str_te>>, <<Str_otoko \o Str_te \o <<13>>, <<>>, Str_otoko>> }

Segmenters == {NewSegmenter(lines) : lines \in WordFiles}

InputChunks == {Str_otoko, Str_ha, Str_te, Str_open, Str_close, Str_space, Str_maru,
                Str_open \o Str_ha \o Str_close}

RawBytes == {65, 128, 227}

RECURSIVE Concats(_, _)
Concats(S, n) ==
    IF n = 0 THEN {<<>>}
    ELSE LET shorter == Concats(S, n - 1) IN
         shorter \cup {a \o b : a \in shorter, b \in S}

\* the okurigana scenarios of the documentation
Scenarios == {Str_no \o Str_otoko \o Str_open \o Str_ha \o Str_close \o Str_te,
              Str_otoko \o Str_no \o Str_otoko \o Str_open \o Str_ha \o Str_close,
              Str_otoko \o Str_open \o Str_space \o Str_ha \o Str_space \o Str_close}

CharInputs == Concats(InputChunks, MaxChunks) \cup Scenarios
ByteInputs == Concats({<<b>> : b \in RawBytes}, MaxBytes)
OobBytes == {0, 130}

-----------------------------------------------------------------------------
(* Specification Spec: one conversion, step by step *)

IdleFFI ==
    /\ ffi = [converter |-> NullPtr, segmenter |-> NullPtr,
              use_segmentation |-> TRUE, last_error |-> ""]
    /\ call = [name |-> "none"]
    /\ ready = FALSE
    /\ discarded = FALSE

IdleLoad ==
    /\ pairs = <<>>
    /\ from_binary = [null |-> TRUE]
    /\ from_json = [null |-> TRUE]

IdleTrie ==
    /\ ptrie = <<>> :> [has_value |-> FALSE, phoneme |-> <<>>]
    /\ wtrie = <<>> :> [has_value |-> FALSE, phoneme |-> <<>>]
    /\ inserted = <<>>
    /\ added = <<>>
    /\ asked = [name |-> "none"]

IdleThreads ==
    /\ heap = <<>>
    /\ gconv = 0
    /\ gseg = 0
    /\ init_mutex = 0
    /\ tpc = <<>>
    /\ tconv = <<>>
    /\ tseg = <<>>
    /\ last_error = ""
    /\ own_error = <<>>
    /\ got_error = <<>>

Init ==
    /\ converter \in Converters
    /\ segmenter \in Segmenters \cup {NullPtr}
    /\ \/ text \in CharInputs /\ oob = 0
       \/ text \in ByteInputs /\ oob \in OobBytes
    /\ pc = "start"
    /\ segments = <<>>
    /\ branches = <<>>
    /\ words = <<>>
    /\ widx = 0
    /\ chars = <<>>
    /\ pos = 0
    /\ result = <<>>
    /\ joined = <<>>
    /\ IdleFFI
    /\ IdleThreads
    /\ IdleLoad
    /\ IdleTrie

\* convert_with_segmentation, step 1
Parse ==
    /\ pc = "start"
    /\ segmenter # NullPtr
    /\ \E r \in {ParseTrace(text, segmenter)} :
       /\ segments' = r.segments
       /\ branches' = r.branches
    /\ pc' = "parsed"
    /\ UNCHANGED <<text, oob, converter, segmenter, words, widx, chars, pos, result,
                   joined, ffiVars, thrVars, loadVars, trieVars>>

\* convert_with_segmentation, step 2
Segment ==
    /\ pc = "parsed"
    /\ words' = segment_from_segments(segmenter, segments, converter.root)
    /\ widx' = 0
    /\ pc' = "words"
    /\ UNCHANGED <<text, oob, converter, segmenter, segments, branches, chars, pos,
                   result, joined, ffiVars, thrVars, loadVars, trieVars>>

\* convert_with_segmentation, step 3: the particle, or a call of convert
NextWord ==
    /\ pc = "words"
    /\ widx < Len(words)
    /\ LET sep == IF widx > 0 THEN joined \o Str_space ELSE joined IN
       IF words[widx + 1] = Str_ha
       THEN /\ joined' = sep \o Str_wa
            /\ widx' = widx + 1
            /\ UNCHANGED <<pc, chars, pos, result>>
       ELSE /\ joined' = sep
            /\ chars' = Decode(words[widx + 1]).chars
            /\ pos' = 0
            /\ result' = <<>>
            /\ pc' = "convert_word"
            /\ UNCHANGED widx
    /\ UNCHANGED <<text, oob, converter, segmenter, segments, branches, words,
                   ffiVars, thrVars, loadVars, trieVars>>

\* the whole text handed to PhonemeConverter::convert (no segmentation)
ConvertText ==
    /\ pc = "start"
    /\ segmenter = NullPtr
    /\ chars' = Decode(text).chars
    /\ pos' = 0
    /\ result' = <<>>
    /\ pc' = "convert_text"
    /\ UNCHANGED <<text, oob, converter, segmenter, segments, branches, words, widx,
                   joined, ffiVars, thrVars, loadVars, trieVars>>

\* one iteration of the while loop of PhonemeConverter::convert
ConvertStep ==
    /\ pc \in {"convert_word", "convert_text"}
    /\ pos < Len(chars)
    /\ \E n \in {ConvertIter(converter.root, chars, pos, result)} :
       /\ pos' = n.pos
       /\ result' = n.result
    /\ UNCHANGED <<text, oob, converter, segmenter, pc, segments, branches, words,
                   widx, chars, joined, ffiVars, thrVars, loadVars, trieVars>>

\* PhonemeConverter::convert returns
ConvertReturn ==
    /\ pc \in {"convert_word", "convert_text"}
    /\ pos >= Len(chars)
    /\ joined' = joined \o result
    /\ IF pc = "convert_word"
       THEN widx' = widx + 1 /\ pc' = "words"
       ELSE pc' = "done" /\ UNCHANGED widx
    /\ UNCHANGED <<text, oob, converter, segmenter, segments, branches, words,
                   chars, pos, result, ffiVars, thrVars, loadVars, trieVars>>

\* convert_with_segmentation returns
Finish ==
    /\ pc = "words"
    /\ widx >= Len(words)
    /\ pc' = "done"
    /\ UNCHANGED <<text, oob, converter, segmenter, segments, branches, words, widx,
                   chars, pos, result, joined, ffiVars, thrVars, loadVars, trieVars>>

Next ==
    \/ Parse
    \/ Segment
    \/ NextWord
    \/ ConvertText
    \/ ConvertStep
    \/ ConvertReturn
    \/ Finish

Spec == Init /\ [][Next]_vars

\* the conversion is one call on one thread: nothing but the call's own steps
\* happens, and the thread keeps running while a step remains
SpecLive == Init /\ [][Next]_vars /\ WF_vars(Next)

-----------------------------------------------------------------------------
(* FFIState and the exported functions, one whole call per step *)

NOT_INITIALIZED == "Converter not initialized. Call jpn_phoneme_init() first."
BUFFER_TOO_SMALL == "Output buffer too small"
OPEN_FAILED == "Failed to open file: "
OPEN_WORDS_FAILED == "Failed to open word file: "
TEMP_FAILED == "Failed to create temporary file"
BINARY_FAILED == "Failed to load binary trie format"

\* a file that does not exist
Missing == [exists |-> FALSE]

\* ---- the dictionary files, as bytes ----

MAGIC_JPHO == <<74, 80, 72, 79>>      \* "JPHO"
MAGIC_JPNT == <<74, 80, 78, 84>>      \* "JPNT"

\* little-endian integers and the 7-bit varint of the JPHO format
U16(n) == <<n % 256, (n \div 256) % 256>>
U32(n) == <<n % 256, (n \div 256) % 256, (n \div 65536) % 256, (n \div 16777216) % 256>>

RECURSIVE Varint(_)
Varint(n) == IF n < 128 THEN <<n>> ELSE <<128 + (n % 128)>> \o Varint(n \div 128)

\* the records of a JPHO file: varint key_length | key | varint value_length | value
RECURSIVE WriteRecords(_)
WriteRecords(entries) ==
    IF entries = <<>> THEN <<>>
    ELSE Varint(Len(Head(entries)[1])) \o Head(entries)[1]
         \o Varint(Len(Head(entries)[2])) \o Head(entries)[2]
         \o WriteRecords(Tail(entries))

\* a JPHO file: magic, version, entry count, records
WriteJPHO(magic, major, minor, count, entries) ==
    magic \o U16(major) \o U16(minor) \o U32(count) \o WriteRecords(entries)

\* the pairs of the key-value text form: "key":"value" separated by commas
RECURSIVE WritePairs(_)
WritePairs(entries) ==
    IF entries = <<>> THEN <<>>
    ELSE <<34>> \o Head(entries)[1] \o <<34, 58, 34>> \o Head(entries)[2] \o <<34>>
         \o (IF Len(entries) > 1 THEN <<44>> ELSE <<>>) \o WritePairs(Tail(entries))

\* the key-value text form of a dictionary: { pairs }, nothing escaped
WriteJson(entries) == <<123>> \o WritePairs(entries) \o <<125>>

\* a file with these bytes
File(bytes) == [exists |-> TRUE, bytes |-> bytes]

\* a .trie file: magic, version and the records that follow
TrieFile(magic, major, minor, entries) ==
    File(WriteJPHO(magic, major, minor, Len(entries), entries))

\* a JSON file of these pairs
JsonFile(entries) == File(WriteJson(entries))

\* a word list file, as its lines
WordFile(lines) == [exists |-> TRUE, lines |-> lines]

\* ---- PhonemeConverter::try_load_binary_format ----

\* file.read(buf, n) at offset pos: the bytes the file still has are stored,
\* the rest of buf keeps what it held (`fill`); the stream then stays at its end
ReadBytes(bytes, p, n, fill) ==
    [i \in 1..n |-> IF p + i <= Len(bytes) THEN bytes[p + i] ELSE fill]

ReadEnd(bytes, p, n) == Min(p + n, Len(bytes))

\* the value of a little-endian integer
RECURSIVE LittleEndian(_)
LittleEndian(bs) ==
    IF bs = <<>> THEN 0 ELSE bs[1] + 256 * LittleEndian(Tail(bs))

\* read_varint_from_file: at the end of the file the read stores nothing and
\* `byte` is an uninitialized variable; with its high bit set the loop never
\* ends.  (The lengths in the files of this model take one or two bytes, far
\* from the 32 bits of `value`.)
RECURSIVE read_varint_from_file(_, _, _, _)
read_varint_from_file(bytes, p, shift, value) ==
    IF p < Len(bytes)
    THEN Only({IF bytes[p + 1] < 128
               THEN [hang |-> FALSE, value |-> v, pos |-> p + 1]
               ELSE read_varint_from_file(bytes, p + 1, shift + 7, v) :
                 v \in {value + (bytes[p + 1] % 128) * 2^shift}})
    ELSE IF oob >= 128
    THEN [hang |-> TRUE, value |-> 0, pos |-> p]
    ELSE [hang |-> FALSE, value |-> value + oob * 2^shift, pos |-> p]

\* one iteration of the entry loop up to insert: key and value are strings of
\* the announced lengths filled with '\0', over which the reads store what
\* the file still has
ReadRecord(bytes, p) ==
    Only({IF kl.hang THEN [hang |-> TRUE, key |-> <<>>, value |-> <<>>, pos |-> p]
          ELSE Only({IF vl.hang
                     THEN [hang |-> TRUE, key |-> <<>>, value |-> <<>>, pos |-> p]
                     ELSE [hang |-> FALSE,
                           key |-> ReadBytes(bytes, kl.pos, kl.value, 0),
                           value |-> ReadBytes(bytes, vl.pos, vl.value, 0),
                           pos |-> ReadEnd(bytes, vl.pos, vl.value)] :
                       vl \in {read_varint_from_file(
                                  bytes, ReadEnd(bytes, kl.pos, kl.value), 0, 0)}}) :
            kl \in {read_varint_from_file(bytes, p, 0, 0)}})

\* for (uint32_t i = 0; i < entry_count_val; i++) { ...; insert(key, value); entry_count++; }
RECURSIVE ReadEntries(_, _, _, _, _)
ReadEntries(conv, bytes, p, i, entry_count_val) ==
    IF i >= entry_count_val THEN [hang |-> FALSE, conv |-> conv]
    ELSE Only({IF rec.hang THEN [hang |-> TRUE, conv |-> conv]
               ELSE Only({ReadEntries(c, bytes, rec.pos, i + 1, entry_count_val) :
                            c \in {[root |-> insert(conv.root, rec.key, rec.value),
                                    entry_count |-> conv.entry_count + 1]}}) :
                 rec \in {ReadRecord(bytes, p)}})

\* PhonemeConverter::try_load_binary_format: the return value and the
\* converter, or a call that does not return.  magic, version_major,
\* version_minor and entry_count_val are uninitialized where the file ends
\* before them.
try_load_binary_format(conv, file) ==
    IF ~file.exists THEN [ok |-> FALSE, hang |-> FALSE, conv |-> conv]
    ELSE IF ReadBytes(file.bytes, 0, 4, oob) # MAGIC_JPHO
    THEN [ok |-> FALSE, hang |-> FALSE, conv |-> conv]
    ELSE IF \/ LittleEndian(ReadBytes(file.bytes, 4, 2, oob)) # 1
            \/ LittleEndian(ReadBytes(file.bytes, 6, 2, oob)) # 0
    THEN [ok |-> FALSE, hang |-> FALSE, conv |-> conv]
    ELSE Only({[ok |-> ~r.hang, hang |-> r.hang, conv |-> r.conv] :
                 r \in {ReadEntries(conv, file.bytes, ReadEnd(file.bytes, 8, 4), 0,
                                    LittleEndian(ReadBytes(file.bytes, 8, 4, oob)))}})

\* ---- PhonemeConverter::parse_json and load_from_json ----

\* std::string::find(ch, pos) and rfind(ch)
RECURSIVE find(_, _, _)
find(str, ch, p) ==
    IF p < Len(str)
    THEN IF str[p + 1] = ch THEN p ELSE find(str, ch, p + 1)
    ELSE NPOS

RECURSIVE rfind_from(_, _, _)
rfind_from(str, ch, p) ==
    IF p < 0 THEN NPOS
    ELSE IF str[p + 1] = ch THEN p ELSE rfind_from(str, ch, p - 1)

rfind(str, ch) == rfind_from(str, ch, Len(str) - 1)

\* while (end < content.length() && content[end] != '"')
\*     { if (content[end] == '\\') end++; end++; }
RECURSIVE ScanString(_, _)
ScanString(content, end) ==
    IF end < Len(content) /\ content[end + 1] # 34
    THEN ScanString(content, (IF content[end + 1] = 92 THEN end + 1 ELSE end) + 1)
    ELSE end

\* a map that keeps the first value of a key
MapPut_first(m, key, value) ==
    IF \E i \in DOMAIN m : m[i][1] = key THEN m ELSE Append(m, <<key, value>>)

\* result[key] = value on the pairs seen so far (kept in order of first
\* insertion; the order an unordered_map is iterated in does not show in the
\* trie as long as the keys are distinct)
RECURSIVE MapPut(_, _, _)
MapPut(m, key, value) ==
    IF m = <<>> THEN << <<key, value>> >>
    ELSE IF Head(m)[1] = key THEN << <<key, value>> >> \o Tail(m)
    ELSE <<Head(m)>> \o MapPut(Tail(m), key, value)

\* the main loop of parse_json
RECURSIVE ParsePairs(_, _, _)
ParsePairs(content, p, res) ==
    IF p >= Len(content) THEN res
    ELSE LET key_start == find(content, 34, p) + 1
             key_end == ScanString(content, key_start)
             value_start == find(content, 34, key_end + 1) + 1
             value_end == ScanString(content, value_start)
         IN IF find(content, 34, p) = NPOS THEN res
            ELSE IF key_end >= Len(content) THEN res
            ELSE IF find(content, 34, key_end + 1) = NPOS THEN res
            ELSE IF value_end >= Len(content) THEN res
            ELSE Only({ParsePairs(content, value_end + 1, m) :
                         m \in {MapPut(res, substr(content, key_start, key_end - key_start),
                                       substr(content, value_start,
                                              value_end - value_start))}})

\* PhonemeConverter::parse_json: the pairs between the first { and the last }
parse_json(json_str) ==
    LET start == find(json_str, 123, 0)
        end == rfind(json_str, 125)
    IN IF start = NPOS \/ end = NPOS THEN <<>>
       ELSE ParsePairs(substr(json_str, start + 1,
                              IF end - start - 1 < 0 THEN Len(json_str)
                              ELSE end - start - 1), 0, <<>>)

\* PhonemeConverter::load_from_json: throws when the file cannot be opened
load_from_json(conv, file) ==
    IF ~file.exists THEN [thrown |-> TRUE, what |-> OPEN_FAILED, conv |-> conv]
    ELSE Only({[thrown |-> FALSE, what |-> "",
                conv |-> [root |-> InsertAll(conv.root, data),
                          entry_count |-> conv.entry_count + Len(data)]] :
                 data \in {parse_json(file.bytes)}})

\* the state jpn_phoneme_init leaves and the value it returns, or a call that
\* does not return
InitResult(st, has_dot, trie_file, json_file) ==
    Only({IF bin.hang THEN [hang |-> TRUE, ret |-> 0, ffi |-> st]
          ELSE IF bin.ok
          THEN [hang |-> FALSE, ret |-> 1,
                ffi |-> [st EXCEPT !.last_error = "", !.converter = bin.conv]]
          ELSE Only({IF ~json.thrown
                     THEN [hang |-> FALSE, ret |-> 1,
                           ffi |-> [st EXCEPT !.last_error = "",
                                              !.converter = json.conv]]
                     ELSE [hang |-> FALSE, ret |-> 0,
                           ffi |-> [st EXCEPT !.last_error = json.what,
                                              !.converter = NullPtr]] :
                       json \in {load_from_json(bin.conv, json_file)}}) :
            bin \in {IF has_dot
                     THEN try_load_binary_format([root |-> EmptyTrie, entry_count |-> 0],
                                                 trie_file)
                     ELSE [ok |-> FALSE, hang |-> FALSE,
                           conv |-> [root |-> EmptyTrie, entry_count |-> 0]]}})

\* a failure that leaves the converter the call had just created
InitFromMemoryResult_noreset(st, temp_ok, data) ==
    IF ~temp_ok
    THEN [hang |-> FALSE, ret |-> 0,
          ffi |-> [st EXCEPT !.last_error = TEMP_FAILED,
                             !.converter = [root |-> EmptyTrie, entry_count |-> 0]]]
    ELSE Only({IF bin.hang THEN [hang |-> TRUE, ret |-> 0, ffi |-> st]
               ELSE IF ~bin.ok
               THEN [hang |-> FALSE, ret |-> 0,
                     ffi |-> [st EXCEPT !.last_error = BINARY_FAILED,
                                        !.converter = bin.conv]]
               ELSE [hang |-> FALSE, ret |-> 1,
                     ffi |-> [st EXCEPT !.last_error = "", !.converter = bin.conv]] :
                 bin \in {try_load_binary_format([root |-> EmptyTrie, entry_count |-> 0],
                                                 File(data))}})

\* the state jpn_phoneme_init_from_memory leaves and the value it returns, or
\* a call that does not return
InitFromMemoryResult(st, temp_ok, data) ==
    IF ~temp_ok
    THEN [hang |-> FALSE, ret |-> 0,
          ffi |-> [st EXCEPT !.last_error = TEMP_FAILED, !.converter = NullPtr]]
    ELSE Only({IF bin.hang THEN [hang |-> TRUE, ret |-> 0, ffi |-> st]
               ELSE IF ~bin.ok
               THEN [hang |-> FALSE, ret |-> 0,
                     ffi |-> [st EXCEPT !.last_error = BINARY_FAILED,
                                        !.converter = NullPtr]]
               ELSE [hang |-> FALSE, ret |-> 1,
                     ffi |-> [st EXCEPT !.last_error = "", !.converter = bin.conv]] :
                 bin \in {try_load_binary_format([root |-> EmptyTrie, entry_count |-> 0],
                                                 File(data))}})

\* the state jpn_phoneme_init_word_dict leaves and the value it returns
InitWordDictResult(st, file) ==
    IF file.exists
    THEN [ret |-> 1,
          ffi |-> [st EXCEPT !.last_error = "",
                             !.segmenter = NewSegmenter(file.lines)]]
    ELSE [ret |-> 0,
          ffi |-> [st EXCEPT !.last_error = OPEN_WORDS_FAILED, !.segmenter = NullPtr]]

\* a cleanup that leaves the converter in place
CleanupResult_keep(st) ==
    [st EXCEPT !.segmenter = NullPtr, !.last_error = ""]

\* the state jpn_phoneme_cleanup leaves
CleanupResult(st) ==
    [st EXCEPT !.converter = NullPtr, !.segmenter = NullPtr, !.last_error = ""]

\* the values jpn_phoneme_get_entry_count and jpn_phoneme_get_word_count
\* return for a loaded dictionary
ENTRY_COUNT_PLACEHOLDER == 240000
WORD_COUNT_PLACEHOLDER == 200000

\* the value jpn_phoneme_get_entry_count returns
EntryCountResult(st) ==
    IF st.converter = NullPtr THEN -1 ELSE ENTRY_COUNT_PLACEHOLDER

\* the value jpn_phoneme_get_word_count returns
WordCountResult(st) ==
    IF st.segmenter = NullPtr THEN -1 ELSE WORD_COUNT_PLACEHOLDER

\* the string jpn_phoneme_convert computes once the converter is there
ConvertDispatch(st, japanese_text) ==
    IF st.use_segmentation /\ st.segmenter # NullPtr
    THEN convert_with_segmentation(st.converter, japanese_text, st.segmenter)
    ELSE convert(st.converter, japanese_text)

\* jpn_phoneme_convert: the return value, what was written to output_buffer,
\* the state left, and whether a conversion was performed
ConvertResult(st, japanese_text, buffer_size) ==
    IF st.converter = NullPtr
    THEN [ret |-> -1, output |-> <<>>, converted |-> FALSE,
          ffi |-> [st EXCEPT !.last_error = NOT_INITIALIZED]]
    ELSE Only({IF Len(res) >= buffer_size
               THEN [ret |-> -1, output |-> <<>>, converted |-> TRUE,
                     ffi |-> [st EXCEPT !.last_error = BUFFER_TOO_SMALL]]
               ELSE [ret |-> Len(res), output |-> Append(res, 0), converted |-> TRUE,
                     ffi |-> st] :
                 res \in {ConvertDispatch(st, japanese_text)}})

-----------------------------------------------------------------------------
(* Specification SpecFFI: completed calls of the exported functions, in sequence *)

\* a file cut short: its first n bytes
Truncated(file, n) == File(SubSeq(file.bytes, 1, n))

\* .trie files: none, a complete one, unsupported versions and magics, one
\* that ends inside its last value, one whose entry count announces a record
\* more than it holds, and one that ends inside its header
TrieFiles ==
    {Missing,
     TrieFile(MAGIC_JPHO, 1, 0, PhonemeEntries),
     TrieFile(MAGIC_JPHO, 2, 0, PhonemeEntries),
     TrieFile(MAGIC_JPNT, 1, 0, PhonemeEntries),
     Truncated(TrieFile(MAGIC_JPHO, 1, 0, PhonemeEntries),
               Len(TrieFile(MAGIC_JPHO, 1, 0, PhonemeEntries).bytes) - 1),
     File(WriteJPHO(MAGIC_JPHO, 1, 0, Len(PhonemeEntries) + 1, PhonemeEntries)),
     Truncated(TrieFile(MAGIC_JPHO, 1, 0, PhonemeEntries), 6)}

\* "no": a file that holds no mapping
NOT_JSON == <<110, 111>>

JsonFiles == {Missing, JsonFile(SubSeq(PhonemeEntries, 1, 1)), File(NOT_JSON)}

WordListFiles == {Missing, WordFile(<<Str_te, Str_otoko \o Str_te>>)}

CallChunks == {Str_ha, Str_te, Str_otoko \o Str_open \o Str_ha \o Str_close, <<128>>,
               <<227>>}

CallInputs == Concats(CallChunks, MaxCallChunks)

BufferSizes == {3, 64}

IdlePipe ==
    /\ text = <<>>
    /\ oob = 0
    /\ converter = NullPtr
    /\ segmenter = NullPtr
    /\ pc = "idle"
    /\ segments = <<>>
    /\ branches = <<>>
    /\ words = <<>>
    /\ widx = 0
    /\ chars = <<>>
    /\ pos = 0
    /\ result = <<>>
    /\ joined = <<>>

InitFFI ==
    /\ ffi = [converter |-> NullPtr, segmenter |-> NullPtr,
              use_segmentation |-> TRUE, last_error |-> ""]
    /\ call = [name |-> "none"]
    /\ ready = FALSE
    /\ discarded = FALSE
    /\ IdlePipe
    /\ IdleThreads
    /\ IdleLoad
    /\ IdleTrie

jpn_phoneme_init ==
    \E has_dot \in BOOLEAN, trie_file \in TrieFiles, json_file \in JsonFiles :
        \E r \in {InitResult(ffi, has_dot, trie_file, json_file)} :
        /\ ~r.hang
        /\ ffi' = r.ffi
        /\ call' = [name |-> "init", ret |-> r.ret, has_dot |-> has_dot,
                    trie_file |-> trie_file, json_file |-> json_file, stray |-> oob]
        /\ ready' = (r.ret = 1)
        /\ discarded' = (r.ret = 0 /\ (ready \/ discarded))
        /\ UNCHANGED <<pipeVars, thrVars, loadVars, trieVars>>

jpn_phoneme_init_from_memory ==
    \E temp_ok \in BOOLEAN, file \in TrieFiles \ {Missing} :
        \E r \in {InitFromMemoryResult(ffi, temp_ok, file.bytes)} :
        /\ ~r.hang
        /\ ffi' = r.ffi
        /\ call' = [name |-> "init_from_memory", ret |-> r.ret, temp_ok |-> temp_ok,
                    trie_data |-> file.bytes, stray |-> oob]
        /\ ready' = (r.ret = 1)
        /\ discarded' = (r.ret = 0 /\ (ready \/ discarded))
        /\ UNCHANGED <<pipeVars, thrVars, loadVars, trieVars>>

jpn_phoneme_init_word_dict ==
    \E file \in WordListFiles :
        \E r \in {InitWordDictResult(ffi, file)} :
        /\ ffi' = r.ffi
        /\ call' = [name |-> "init_word_dict", ret |-> r.ret]
        /\ UNCHANGED <<ready, discarded, pipeVars, thrVars, loadVars, trieVars>>

jpn_phoneme_set_use_segmentation ==
    \E enabled \in BOOLEAN :
        /\ ffi' = [ffi EXCEPT !.use_segmentation = enabled]
        /\ call' = [name |-> "set_use_segmentation", enabled |-> enabled]
        /\ UNCHANGED <<ready, discarded, pipeVars, thrVars, loadVars, trieVars>>

\* the memory behind the input string differs from call to call: this call's
\* reads past the terminator yield oob (kept as call.stray), the next call's oob'
jpn_phoneme_convert ==
    \E japanese_text \in CallInputs, buffer_size \in BufferSizes :
        \E r \in {ConvertResult(ffi, japanese_text, buffer_size)} :
        /\ ffi' = r.ffi
        /\ call' = [name |-> "convert", text |-> japanese_text,
                    buffer_size |-> buffer_size, ret |-> r.ret,
                    output |-> r.output, converted |-> r.converted,
                    stray |-> oob]
        /\ oob' \in OobBytes
        /\ UNCHANGED <<ready, discarded, pipeRest, thrVars, loadVars, trieVars>>

jpn_phoneme_get_entry_count ==
    /\ call' = [name |-> "get_entry_count", ret |-> EntryCountResult(ffi)]
    /\ UNCHANGED <<ffi, ready, discarded, pipeVars, thrVars, loadVars, trieVars>>

jpn_phoneme_get_word_count ==
    /\ call' = [name |-> "get_word_count", ret |-> WordCountResult(ffi)]
    /\ UNCHANGED <<ffi, ready, discarded, pipeVars, thrVars, loadVars, trieVars>>

jpn_phoneme_cleanup ==
    /\ ffi' = CleanupResult(ffi)
    /\ call' = [name |-> "cleanup"]
    /\ ready' = FALSE
    /\ UNCHANGED <<discarded, pipeVars, thrVars, loadVars, trieVars>>

NextFFI ==
    \/ jpn_phoneme_init
    \/ jpn_phoneme_init_from_memory
    \/ jpn_phoneme_init_word_dict
    \/ jpn_phoneme_set_use_segmentation
    \/ jpn_phoneme_convert
    \/ jpn_phoneme_get_entry_count
    \/ jpn_phoneme_get_word_count
    \/ jpn_phoneme_cleanup

SpecFFI == InitFFI /\ [][NextFFI]_vars

-----------------------------------------------------------------------------
(* Specification SpecThreads: the exported functions called from several   *)
(* threads.  A converter or segmenter is an object of the heap; the trie   *)
(* contents are left out, what matters is whether an object is being       *)
(* loaded, is loaded, or has been destroyed while a conversion reads it.   *)

Threads == 1..NumThreads
Objects == 1..MaxObjects

\* the functions that take std::lock_guard on FFIState::init_mutex
InitFunctions == {"jpn_phoneme_init", "jpn_phoneme_init_from_memory",
                  "jpn_phoneme_init_word_dict"}
LockingFunctions == InitFunctions \cup {"jpn_phoneme_cleanup"}

Idle == [fn |-> "none", at |-> "idle"]
At(fn, at) == [fn |-> fn, at |-> at]

\* the state of the object a pointer refers to
ObjState(id) == IF id = 0 THEN "null" ELSE heap[id]

\* unique_ptr::reset / the destructor run by an assignment
Destroy(h, id) == IF id = 0 THEN h ELSE [h EXCEPT ![id] = "destroyed"]

InitThreads ==
    /\ heap = [o \in Objects |-> "free"]
    /\ gconv = 0
    /\ gseg = 0
    /\ init_mutex = 0
    /\ tpc = [t \in Threads |-> Idle]
    /\ tconv = [t \in Threads |-> 0]
    /\ tseg = [t \in Threads |-> 0]
    /\ last_error = ""
    /\ own_error = [t \in Threads |-> ""]
    /\ got_error = [t \in Threads |-> ""]
    /\ IdleLoad
    /\ IdleTrie
    /\ IdleFFI
    /\ IdlePipe

\* an entry into an init function or cleanup that does not wait for the mutex
lock_guard_nowait(t, fn) ==
    /\ tpc[t] = Idle
    /\ fn \in InitFunctions => \E o \in Objects : heap[o] = "free"
    /\ init_mutex' = t
    /\ tpc' = [tpc EXCEPT ![t] = At(fn, "locked")]
    /\ UNCHANGED <<heap, gconv, gseg, tconv, tseg, errVars, pipeVars, ffiVars, loadVars, trieVars>>

\* std::lock_guard<std::mutex> lock(FFIState::init_mutex) at the top of an
\* init function or of cleanup (an init is started only while an object is
\* left to allocate)
lock_guard(t, fn) ==
    /\ tpc[t] = Idle
    /\ init_mutex = 0
    /\ fn \in InitFunctions => \E o \in Objects : heap[o] = "free"
    /\ init_mutex' = t
    /\ tpc' = [tpc EXCEPT ![t] = At(fn, "locked")]
    /\ UNCHANGED <<heap, gconv, gseg, tconv, tseg, errVars, pipeVars, ffiVars, loadVars, trieVars>>

\* FFIState::last_error.clear(), then
\* FFIState::converter = std::make_unique<PhonemeConverter>() (or segmenter):
\* the new, empty object is published and the previous one destroyed
make_unique(t) ==
    /\ tpc[t].at = "locked"
    /\ tpc[t].fn \in InitFunctions
    /\ \E o \in Objects :
        /\ heap[o] = "free"
        /\ \A q \in Objects : heap[q] = "free" => o <= q
        /\ IF tpc[t].fn = "jpn_phoneme_init_word_dict"
           THEN /\ heap' = [Destroy(heap, gseg) EXCEPT ![o] = "loading"]
                /\ gseg' = o
                /\ UNCHANGED gconv
           ELSE /\ heap' = [Destroy(heap, gconv) EXCEPT ![o] = "loading"]
                /\ gconv' = o
                /\ UNCHANGED gseg
    /\ tpc' = [tpc EXCEPT ![t] = At(tpc[t].fn, "loading")]
    /\ last_error' = ""
    /\ own_error' = [own_error EXCEPT ![t] = ""]
    /\ UNCHANGED <<init_mutex, tconv, tseg, got_error, pipeVars, ffiVars, loadVars, trieVars>>

\* the load (its inserts) completes and the function returns 1
load_returns(t) ==
    /\ tpc[t].at = "loading"
    /\ heap' = IF tpc[t].fn = "jpn_phoneme_init_word_dict"
               THEN [heap EXCEPT ![gseg] = "loaded"]
               ELSE [heap EXCEPT ![gconv] = "loaded"]
    /\ init_mutex' = 0
    /\ tpc' = [tpc EXCEPT ![t] = Idle]
    /\ UNCHANGED <<gconv, gseg, tconv, tseg, errVars, pipeVars, ffiVars, loadVars, trieVars>>

\* the load throws: catch, last_error = e.what(), reset(), return 0
load_throws(t) ==
    /\ tpc[t].at = "loading"
    /\ IF tpc[t].fn = "jpn_phoneme_init_word_dict"
       THEN heap' = Destroy(heap, gseg) /\ gseg' = 0 /\ UNCHANGED gconv
       ELSE heap' = Destroy(heap, gconv) /\ gconv' = 0 /\ UNCHANGED gseg
    /\ \E what \in {CASE tpc[t].fn = "jpn_phoneme_init" -> OPEN_FAILED
                      [] tpc[t].fn = "jpn_phoneme_init_from_memory" -> BINARY_FAILED
                      [] OTHER -> OPEN_WORDS_FAILED} :
        /\ last_error' = what
        /\ own_error' = [own_error EXCEPT ![t] = what]
    /\ init_mutex' = 0
    /\ tpc' = [tpc EXCEPT ![t] = Idle]
    /\ UNCHANGED <<tconv, tseg, got_error, pipeVars, ffiVars, loadVars, trieVars>>

\* the body of jpn_phoneme_cleanup
cleanup_reset(t) ==
    /\ tpc[t] = At("jpn_phoneme_cleanup", "locked")
    /\ heap' = Destroy(Destroy(heap, gconv), gseg)
    /\ gconv' = 0
    /\ gseg' = 0
    /\ init_mutex' = 0
    /\ tpc' = [tpc EXCEPT ![t] = Idle]
    /\ last_error' = ""
    /\ own_error' = [own_error EXCEPT ![t] = ""]
    /\ UNCHANGED <<tconv, tseg, got_error, pipeVars, ffiVars, loadVars, trieVars>>

\* jpn_phoneme_convert: if (!FFIState::converter) { last_error = ...; return -1; }
convert_check(t) ==
    /\ tpc[t] = Idle
    /\ tpc' = [tpc EXCEPT ![t] = At("jpn_phoneme_convert",
                                    IF gconv = 0 THEN "returning" ELSE "checked")]
    /\ IF gconv = 0
       THEN /\ last_error' = NOT_INITIALIZED
            /\ own_error' = [own_error EXCEPT ![t] = NOT_INITIALIZED]
       ELSE UNCHANGED <<last_error, own_error>>
    /\ UNCHANGED <<heap, gconv, gseg, init_mutex, tconv, tseg, got_error,
                   pipeVars, ffiVars, loadVars, trieVars>>

\* jpn_phoneme_convert: use_segmentation && segmenter, then *FFIState::converter
\* (and *FFIState::segmenter) are dereferenced for the call
convert_dispatch(t) ==
    /\ tpc[t] = At("jpn_phoneme_convert", "checked")
    /\ \E use_segmentation \in BOOLEAN :
        tseg' = [tseg EXCEPT ![t] = IF use_segmentation THEN gseg ELSE 0]
    /\ tconv' = [tconv EXCEPT ![t] = gconv]
    /\ tpc' = [tpc EXCEPT ![t] = At("jpn_phoneme_convert", "walking")]
    /\ UNCHANGED <<heap, gconv, gseg, init_mutex, errVars, pipeVars, ffiVars, loadVars, trieVars>>

\* the conversion walks the tries of the objects it dereferenced; a result
\* with result_len >= buffer_size sets last_error
convert_walk(t) ==
    /\ tpc[t] = At("jpn_phoneme_convert", "walking")
    /\ tpc' = [tpc EXCEPT ![t] = At("jpn_phoneme_convert", "returning")]
    /\ \E too_small \in BOOLEAN :
        IF too_small
        THEN /\ last_error' = BUFFER_TOO_SMALL
             /\ own_error' = [own_error EXCEPT ![t] = BUFFER_TOO_SMALL]
        ELSE UNCHANGED <<last_error, own_error>>
    /\ UNCHANGED <<heap, gconv, gseg, init_mutex, tconv, tseg, got_error,
                   pipeVars, ffiVars, loadVars, trieVars>>

\* jpn_phoneme_convert returns
convert_return(t) ==
    /\ tpc[t] = At("jpn_phoneme_convert", "returning")
    /\ tpc' = [tpc EXCEPT ![t] = Idle]
    /\ tconv' = [tconv EXCEPT ![t] = 0]
    /\ tseg' = [tseg EXCEPT ![t] = 0]
    /\ UNCHANGED <<heap, gconv, gseg, init_mutex, errVars, pipeVars, ffiVars, loadVars, trieVars>>

\* jpn_phoneme_get_error: return FFIState::last_error.c_str()
jpn_phoneme_get_error(t) ==
    /\ tpc[t] = Idle
    /\ tpc' = [tpc EXCEPT ![t] = At("jpn_phoneme_get_error", "returning")]
    /\ got_error' = [got_error EXCEPT ![t] = last_error]
    /\ UNCHANGED <<heap, gconv, gseg, init_mutex, tconv, tseg, last_error,
                   own_error, pipeVars, ffiVars, loadVars, trieVars>>

\* the caller has read the message
get_error_return(t) ==
    /\ tpc[t] = At("jpn_phoneme_get_error", "returning")
    /\ tpc' = [tpc EXCEPT ![t] = Idle]
    /\ got_error' = [got_error EXCEPT ![t] = ""]
    /\ UNCHANGED <<heap, gconv, gseg, init_mutex, tconv, tseg, last_error,
                   own_error, pipeVars, ffiVars, loadVars, trieVars>>

NextThreads ==
    \/ \E t \in Threads, fn \in LockingFunctions : lock_guard(t, fn)
    \/ \E t \in Threads : make_unique(t)
    \/ \E t \in Threads : load_returns(t)
    \/ \E t \in Threads : load_throws(t)
    \/ \E t \in Threads : cleanup_reset(t)
    \/ \E t \in Threads : convert_check(t)
    \/ \E t \in Threads : convert_dispatch(t)
    \/ \E t \in Threads : convert_walk(t)
    \/ \E t \in Threads : convert_return(t)
    \/ \E t \in Threads : jpn_phoneme_get_error(t)
    \/ \E t \in Threads : get_error_return(t)

SpecThreads == InitThreads /\ [][NextThreads]_vars

-----------------------------------------------------------------------------
(* Specification SpecLoad: the same pairs written as a JPHO file and as a  *)
(* key-value text file, each loaded into a new converter                   *)

\* keys and values the pairs are made of: a, the kana ha, a double quote,
\* a backslash; x, the two bytes "ha"
PairKeys == {<<97>>, Str_ha, <<34>>, <<92>>}
PairValues == {<<120>>, <<104, 97>>}

RECURSIVE Lists(_, _)
Lists(S, n) ==
    IF n = 0 THEN {<<>>}
    ELSE Lists(S, n - 1) \cup {Append(l, e) : l \in Lists(S, n - 1), e \in S}

PairLists == Lists({<<k, v>> : k \in PairKeys, v \in PairValues}, MaxPairs)

InitLoad ==
    /\ pairs \in PairLists
    /\ from_binary = NullPtr
    /\ from_json = NullPtr
    /\ IdlePipe
    /\ IdleFFI
    /\ IdleThreads
    /\ IdleTrie

\* PhonemeConverter() and try_load_binary_format on the JPHO file of the pairs
LoadBinary ==
    \E r \in {try_load_binary_format([root |-> EmptyTrie, entry_count |-> 0],
                                      TrieFile(MAGIC_JPHO, 1, 0, pairs))} :
        /\ r.ok
        /\ from_binary' = r.conv
        /\ UNCHANGED <<pairs, from_json, pipeVars, ffiVars, thrVars, trieVars>>

\* PhonemeConverter() and load_from_json on the text file of the pairs
LoadJson ==
    \E r \in {load_from_json([root |-> EmptyTrie, entry_count |-> 0],
                              JsonFile(pairs))} :
        /\ ~r.thrown
        /\ from_json' = r.conv
        /\ UNCHANGED <<pairs, from_binary, pipeVars, ffiVars, thrVars, trieVars>>

NextLoad ==
    \/ LoadBinary
    \/ LoadJson

SpecLoad == InitLoad /\ [][NextLoad]_vars


-----------------------------------------------------------------------------
(* SpecTrie: the two tries, one insert or query per step *)

\* inserts in one behaviour
MaxInserts == 3

\* keys: a, the kana ha, the lone byte 0x80, the two bytes of U+0080
TrieKeys == {<<97>>, Str_ha, <<128>>, <<194, 128>>}
TrieValues == {<<120>>, <<121>>}

InitTrie ==
    /\ IdleTrie
    /\ IdlePipe
    /\ IdleFFI
    /\ IdleThreads
    /\ IdleLoad

\* PhonemeConverter::insert(key, phoneme)
Insert ==
    \E key \in TrieKeys, phoneme \in TrieValues :
        /\ Len(inserted) + Len(added) < MaxInserts
        /\ ptrie' = insert(ptrie, key, phoneme)
        /\ inserted' = Append(inserted, <<key, phoneme>>)
        /\ UNCHANGED <<wtrie, added, asked, pipeVars, ffiVars, thrVars, loadVars>>

\* WordSegmenter::insert_word(word)
InsertWord ==
    \E word \in TrieKeys :
        /\ Len(inserted) + Len(added) < MaxInserts
        /\ wtrie' = insert_word(wtrie, word)
        /\ added' = Append(added, word)
        /\ asked' = [name |-> "none"]
        /\ UNCHANGED <<ptrie, inserted, pipeVars, ffiVars, thrVars, loadVars>>

\* WordSegmenter::contains_word(word)
ContainsWord ==
    \E word \in TrieKeys \cup {<<>>} :
        /\ asked' = [name |-> "contains_word", word |-> word,
                     ret |-> contains_word(wtrie, word)]
        /\ UNCHANGED <<ptrie, wtrie, inserted, added, pipeVars, ffiVars, thrVars,
                       loadVars>>

NextTrie ==
    \/ Insert
    \/ InsertWord
    \/ ContainsWord

SpecTrie == InitTrie /\ [][NextTrie]_vars


-----------------------------------------------------------------------------
(* Properties *)

\* the keys of a trie: the nodes that carry a value
Keys(root) == {k \in DOMAIN root : root[k].has_value}

Max(S) == CHOOSE x \in S : \A y \in S : y <= x

StartsWith(str, prefix) ==
    Len(str) >= Len(prefix) /\ SubSeq(str, 1, Len(prefix)) = prefix

RECURSIVE DropLeadingSpace(_)
DropLeadingSpace(str) ==
    IF str # <<>> /\ IsSpace(str[1]) THEN DropLeadingSpace(Tail(str)) ELSE str

\* a text without the ASCII whitespace that directly follows an opening
\* bracket or directly precedes a closing bracket
RECURSIVE StripReadingSpace(_)
StripReadingSpace(str) ==
    IF str = <<>> THEN <<>>
    ELSE IF StartsWith(str, Str_open)
    THEN Str_open \o DropLeadingSpace(StripReadingSpace(SubSeq(str, 4, Len(str))))
    ELSE LET r == StripReadingSpace(Tail(str)) IN
         IF IsSpace(str[1]) /\ StartsWith(r, Str_close) THEN r ELSE <<str[1]>> \o r

\* the text the segments stand for: plain text as it is, a hint as
\* surface, opening bracket, reading, closing bracket
RECURSIVE Reconstruct(_)
Reconstruct(segs) ==
    IF segs = <<>> THEN <<>>
    ELSE (IF Head(segs).type = "FURIGANA_HINT"
          THEN Head(segs).text \o Str_open \o Head(segs).reading \o Str_close
          ELSE Head(segs).text)
         \o Reconstruct(Tail(segs))

\* the furigana-expanded text: each hint replaced by its reading
RECURSIVE Expanded(_)
Expanded(segs) ==
    IF segs = <<>> THEN <<>>
    ELSE (IF Head(segs).type = "FURIGANA_HINT" THEN Head(segs).reading
          ELSE Head(segs).text)
         \o Expanded(Tail(segs))

\* the parse has run on `text`
Parsed == segmenter # NullPtr /\ pc # "start"

\* iteration i of the parse found a closed bracket pair
FoundHint(i) == branches[i].branch \in {"empty", "compound", "hint"}

\* the opening and closing bracket iteration i works on
OpenAt(i) == FindCp(Decode(text).chars, branches[i].at, BRACKET_OPEN)
CloseAt(i) == FindCp(Decode(text).chars, OpenAt(i) + 1, BRACKET_CLOSE)

\* the surface chars[s..o) of iteration i
SurfaceAt(i) ==
    LET cs == Decode(text).chars IN
    SubSeq(cs, WordStart(cs, branches[i].at, OpenAt(i)) + 1, OpenAt(i))

\* the lengths L > 0 for which surface followed by chars[c+1 .. c+1+L) is a
\* key of the word trie
CompoundLengths(i) ==
    LET cs == Decode(text).chars IN
    {L \in 1..(Len(cs) - (CloseAt(i) + 1)) :
        SurfaceAt(i) \o SubSeq(cs, CloseAt(i) + 2, CloseAt(i) + 1 + L)
            \in Keys(segmenter.root)}

\* the keys of the phoneme trie that are prefixes of chars at the cursor
PrefixKeys == {k \in Keys(converter.root) :
                 /\ Len(k) > 0
                 /\ pos + Len(k) <= Len(chars)
                 /\ SubSeq(chars, pos + 1, pos + Len(k)) = k}

LongestPrefixKey == CHOOSE k \in PrefixKeys : \A j \in PrefixKeys : Len(j) <= Len(k)

\* a thread is inside the trie walks of a conversion
Walking(t) == tpc[t] = At("jpn_phoneme_convert", "walking")

\* the last call was a convert that ran with word segmentation disabled
ConvertedUnsegmented ==
    /\ call.name = "convert"
    /\ call.converted
    /\ call.ret >= 0
    /\ ~ffi.use_segmentation
    /\ call.stray = oob

\* C1: cleanup and the init functions never destroy or replace the converter
\* or the segmenter while a jpn_phoneme_convert on another thread is using
\* it: no thread is inside the walks of a conversion on a destroyed object.
C1_NoDestroyWhileConverting ==
    \A t \in Threads :
        Walking(t) => /\ ObjState(tconv[t]) # "destroyed"
                      /\ ObjState(tseg[t]) # "destroyed"

\* C2: no conversion walks a trie while inserts into it are in progress: the
\* objects a conversion walks have completed their load.
C2_NoWalkWhileLoading ==
    \A t \in Threads :
        Walking(t) => /\ ObjState(tconv[t]) # "loading"
                      /\ ObjState(tseg[t]) # "loading"

\* C3: in every sequence of completed calls, jpn_phoneme_convert performs a
\* conversion exactly when the most recent of init, init_from_memory and
\* cleanup was an init that returned 1; otherwise it returns -1 and the last
\* error is the not-initialized message.
C3_ConvertOnlyWhenReady ==
    call.name = "convert" =>
        IF ready
        THEN call.converted
        ELSE /\ ~call.converted
             /\ call.ret = -1
             /\ ffi.last_error = NOT_INITIALIZED

\* a convert refused although a word dictionary is loaded
C3_Witness ==
    /\ call.name = "convert"
    /\ ~ready
    /\ call.ret = -1
    /\ ffi.segmenter # NullPtr

\* C4: with word segmentation disabled the output is the conversion of the
\* furigana-expanded text (each hint replaced by its reading, brackets removed).
C4_UnsegmentedExpandsFurigana ==
    ConvertedUnsegmented =>
        call.output = Append(convert(ffi.converter,
                                     Expanded(parse_furigana_segments(call.text, NullPtr))),
                             0)

\* C5: the compound override is applied to a hint exactly when the word trie
\* holds a key equal to the surface followed by L > 0 characters after the
\* closing bracket; the scan then resumes after the greatest such L, and
\* otherwise a Hint is emitted and the scan resumes after the bracket.
C5_CompoundExactlyOnKey ==
    Parsed =>
        \A i \in DOMAIN branches :
            branches[i].branch \in {"compound", "hint"} =>
                IF CompoundLengths(i) # {}
                THEN /\ branches[i].branch = "compound"
                     /\ branches[i].next = CloseAt(i) + 1 + Max(CompoundLengths(i))
                ELSE /\ branches[i].branch = "hint"
                     /\ branches[i].next = CloseAt(i) + 1

C7_NoSurfaceNoHint ==
    Parsed =>
        \A i \in DOMAIN branches :
            (/\ FoundHint(i)
             /\ \A j \in (branches[i].at + 1)..OpenAt(i) :
                    \/ IsJapaneseBoundary(Decode(text).chars[j])
                    \/ IsAsciiBoundary(Decode(text).chars[j]))
                => branches[i].branch = "empty"

\* C8: when the whole input is the single code point U+306F the output is
\* "wa", with word segmentation enabled or disabled.
C8_ParticleIsWa ==
    (call.name = "convert" /\ call.converted /\ call.ret >= 0 /\ call.text = Str_ha)
        => call.output = Append(Str_wa, 0)

\* C9: in every iteration of the loop of PhonemeConverter::convert at which
\* some key of the phoneme trie is a prefix of the remaining code points, the
\* value of the longest such key is appended and the cursor advances by that
\* key's length.
C9_LongestMatch ==
    [][(pc \in {"convert_word", "convert_text"} /\ pos < Len(chars) /\ PrefixKeys # {})
          => /\ pos' = pos + Len(LongestPrefixKey)
             /\ result' = result \o converter.root[LongestPrefixKey].phoneme]_vars

\* the longest of three keys that are prefixes was taken in one step
C9_Witness ==
    /\ pc = "convert_text"
    /\ chars = Decode(Str_otoko \o Str_ha \o Str_te).chars
    /\ pos = 3
    /\ result = <<120>>

\* C10: with word segmentation disabled, an input no code point of which
\* starts a key of the phoneme trie is returned byte for byte.
C10_PassThrough ==
    (/\ ConvertedUnsegmented
     /\ \A p \in 0..(Len(Decode(call.text).chars) - 1) :
            ConvertWalk(ffi.converter.root, Decode(call.text).chars, p).length = 0)
        => call.output = Append(call.text, 0)

\* a byte that no branch of get_code_point takes as a leading byte:
\* 10xxxxxx or 11111xxx
InvalidLead(b) == (b >= 128 /\ b < 192) \/ b >= 248

\* C11: malformed UTF-8 is not an error and passes through: an input made of
\* bytes that are not valid leading bytes is converted without error and each
\* byte appears in the output as that same byte.
C11_MalformedBytesPassThrough ==
    (/\ call.name = "convert"
     /\ call.converted
     /\ call.text # <<>>
     /\ \A i \in DOMAIN call.text : InvalidLead(call.text[i])
     /\ call.buffer_size > 2 * Len(call.text))
        => /\ call.ret = Len(call.text)
           /\ call.output = Append(call.text, 0)

\* the tokens of the last call's text under the loaded dictionaries (in a
\* state where stray reads yield what they yielded during the call)
TokensOfCall ==
    segment_from_segments(ffi.segmenter,
                          parse_furigana_segments(call.text, ffi.segmenter),
                          ffi.converter.root)

\* the strings of a sequence with one ASCII space between neighbours
RECURSIVE SpaceJoined(_)
SpaceJoined(strs) ==
    IF strs = <<>> THEN <<>>
    ELSE IF Len(strs) = 1 THEN strs[1]
    ELSE strs[1] \o <<32>> \o SpaceJoined(Tail(strs))

\* C12: the output of a segmented conversion is the phoneme outputs of the
\* tokens, in token order, with exactly one space between consecutive tokens
\* and none before the first or after the last.
C12_TokensJoinedBySpace ==
    (/\ call.name = "convert"
     /\ call.converted
     /\ call.ret >= 0
     /\ ffi.use_segmentation
     /\ ffi.segmenter # NullPtr
     /\ call.stray = oob)
        => \A ws \in {TokensOfCall} :
             call.output =
               Append(SpaceJoined([i \in DOMAIN ws |-> WordPhonemes(ffi.converter, ws[i])]),
                      0)

\* two tokens, the second the particle: "te wa"
C12_Witness ==
    /\ call.name = "convert"
    /\ ffi.use_segmentation
    /\ ffi.segmenter # NullPtr
    /\ call.text = Str_te \o Str_ha
    /\ call.output = <<116, 101, 32, 119, 97, 0>>

\* C13: for fixed dictionaries and a fixed segmentation flag, a convert call
\* with the same input bytes (and buffer size) as the call before it produces
\* the same output bytes and the same return value.
C13_Determinism ==
    [][(/\ call.name = "convert"
        /\ call'.name = "convert"
        /\ call'.text = call.text
        /\ call'.buffer_size = call.buffer_size
        /\ ffi'.converter = ffi.converter
        /\ ffi'.segmenter = ffi.segmenter
        /\ ffi'.use_segmentation = ffi.use_segmentation)
          => /\ call'.output = call.output
             /\ call'.ret = call.ret]_vars

\* C14: error storage is per thread: the message jpn_phoneme_get_error
\* returns on a thread is the one left by that thread's own calls (the message
\* of its last failing call), whatever failed on other threads meanwhile.
C14_ErrorPerThread ==
    \A t \in DOMAIN tpc :
        tpc[t] = At("jpn_phoneme_get_error", "returning")
            => got_error[t] = own_error[t]

\* a call of jpn_phoneme_convert that performed the conversion, seen in a state
\* where stray reads yield what they yielded during the call
ConvertedCall ==
    /\ call.name = "convert"
    /\ call.converted
    /\ call.stray = oob

\* C15: a result too large for the output buffer is reported as the distinct
\* error "buffer too small" together with the size the result needs: the call
\* hands the needed size (the result's length, with or without its terminator)
\* back to the caller.
C15_TooSmallReportsSize ==
    ConvertedCall =>
        \A res \in {ConvertDispatch(ffi, call.text)} :
            Len(res) >= call.buffer_size =>
                /\ ffi.last_error = BUFFER_TOO_SMALL
                /\ ffi.last_error # NOT_INITIALIZED
                /\ \/ call.ret \in {Len(res), Len(res) + 1}
                   \/ -call.ret \in {Len(res), Len(res) + 1}

\* C16: on an initialized converter the call returns the number of result
\* bytes written whenever the result fits in buffer_size bytes, the terminator
\* being appended only when a byte is left for it, and returns -1 for the
\* buffer only when the result is longer than buffer_size.
C16_FitsThenWritten ==
    ConvertedCall =>
        \A res \in {ConvertDispatch(ffi, call.text)} :
            /\ Len(res) <= call.buffer_size =>
                    /\ call.ret = Len(res)
                    /\ call.output = IF Len(res) < call.buffer_size
                                     THEN Append(res, 0) ELSE res
            /\ call.ret = -1 => Len(res) > call.buffer_size

\* the offset behind the varint at offset p, or NPOS when the data ends first
RECURSIVE VarintEnd(_, _)
VarintEnd(bytes, p) ==
    IF p = NPOS \/ p >= Len(bytes) THEN NPOS
    ELSE IF bytes[p + 1] < 128 THEN p + 1
    ELSE VarintEnd(bytes, p + 1)

\* the offset behind the length-prefixed string at offset p, or NPOS when its
\* length or its bytes run past the end of the data
FieldEnd(bytes, p) ==
    IF VarintEnd(bytes, p) = NPOS THEN NPOS
    ELSE \* the varint lies within the data: its value does not depend on oob
         LET end == VarintEnd(bytes, p) + read_varint_from_file(bytes, p, 0, 0).value
         IN IF end > Len(bytes) THEN NPOS ELSE end

\* the offset behind n records at offset p, or NPOS when one overruns
RECURSIVE RecordsEnd(_, _, _)
RecordsEnd(bytes, p, n) ==
    IF p = NPOS \/ n = 0 THEN p
    ELSE RecordsEnd(bytes, FieldEnd(bytes, FieldEnd(bytes, p)), n - 1)

BadMagic(bytes) == SubSeq(bytes, 1, Min(4, Len(bytes))) # MAGIC_JPHO

BadVersion(bytes) ==
    /\ Len(bytes) >= 8
    /\ <<LittleEndian(SubSeq(bytes, 5, 6)), LittleEndian(SubSeq(bytes, 7, 8))>> # <<1, 0>>

\* the header, the entry count or a record runs past the end of the data
Overruns(bytes) ==
    \/ Len(bytes) < 12
    \/ RecordsEnd(bytes, 12, LittleEndian(SubSeq(bytes, 9, 12))) = NPOS

\* C17: whenever the magic of the data is not JPHO, its version is not 1.0, or
\* the header, the entry count or a record's key or value length runs past the
\* end of the data, jpn_phoneme_init_from_memory returns 0 with an error set.
C17_BinaryLoaderRejects ==
    (/\ call.name = "init_from_memory"
     /\ \/ BadMagic(call.trie_data)
        \/ BadVersion(call.trie_data)
        \/ Overruns(call.trie_data))
        => /\ call.ret = 0
           /\ ffi.last_error # ""
           /\ ffi.converter = NullPtr

\* the binary file jpn_phoneme_init tried did not give it a dictionary
BinaryNotLoaded ==
    \/ ~call.has_dot
    \/ ~call.trie_file.exists
    \/ BadMagic(call.trie_file.bytes)
    \/ BadVersion(call.trie_file.bytes)

\* the bytes are the key-value text form of some pairs: { "key":"value", ... }
IsMapping(bytes) ==
    /\ bytes # <<>>
    /\ bytes = WriteJson(parse_json(bytes))

\* C18: jpn_phoneme_init returns 0 with the last error set when the dictionary
\* file is missing, when its contents cannot be parsed as a key/value mapping,
\* and when the binary dictionary it tries has an unsupported version.
C18_InitFailures ==
    (/\ call.name = "init"
     /\ \/ BinaryNotLoaded /\ ~call.json_file.exists
        \/ BinaryNotLoaded /\ call.json_file.exists
                           /\ ~IsMapping(call.json_file.bytes)
        \/ call.has_dot /\ call.trie_file.exists
                        /\ ~BadMagic(call.trie_file.bytes)
                        /\ BadVersion(call.trie_file.bytes))
        => /\ call.ret = 0
           /\ ffi.last_error # ""

\* C20: jpn_phoneme_get_entry_count returns the number of entries the current
\* dictionary loaded and jpn_phoneme_get_word_count the number of words the
\* word dictionary loaded; each returns -1 when its dictionary is not loaded.
C20_CountsAreLoadedCounts ==
    /\ call.name = "get_entry_count" =>
           call.ret = IF ffi.converter = NullPtr THEN -1
                      ELSE ffi.converter.entry_count
    /\ call.name = "get_word_count" =>
           call.ret = IF ffi.segmenter = NullPtr THEN -1
                      ELSE ffi.segmenter.word_count

\* the mapping a trie holds: the keys (as code points) that carry a value,
\* each with its value
Mapping(root) ==
    [k \in {p \in DOMAIN root : root[p].has_value} |-> root[k].phoneme]

\* both loaders have run on the files of the same pairs
BothLoaded == from_binary # NullPtr /\ from_json # NullPtr

\* no key and no value holds a double quote or a backslash
PlainPairs ==
    \A i \in DOMAIN pairs :
        \A j \in {1, 2} :
            \A n \in DOMAIN pairs[i][j] : pairs[i][j][n] \notin {34, 92}

InBody(t) == tpc[t].fn \in LockingFunctions /\ tpc[t].at # "idle"

\* C21: initialization and teardown exclude each other: at most one thread is
\* inside the body of jpn_phoneme_init, jpn_phoneme_init_from_memory,
\* jpn_phoneme_init_word_dict or jpn_phoneme_cleanup at any time.
C21_InitAndCleanupExclusive ==
    \A t \in DOMAIN tpc, u \in DOMAIN tpc :
        (InBody(t) /\ InBody(u)) => t = u

\* one thread is loading a dictionary it has published while another has
\* called an init function or cleanup and is kept out
C21_Witness ==
    \E t \in DOMAIN tpc, u \in DOMAIN tpc :
        /\ t # u
        /\ tpc[t].at = "loading"
        /\ init_mutex = t
        /\ tpc[u] = Idle
        /\ gconv # 0

\* the lengths of the keys of a trie that are a prefix of cs at position p
KeyLengthsAt(root, cs, p) ==
    {L \in 1..(Len(cs) - p) : SubSeq(cs, p + 1, p + L) \in Keys(root)}

\* the iterations of the while loop of segment_from_segments over a normal
\* segment: what each did (skipped a space, emitted a match, emitted a grammar
\* run) and the code points [from, to) it consumed
RECURSIVE TokenTrace(_, _, _, _, _, _)
TokenTrace(root, phoneme_root, txt, cs, bps, p) ==
    IF p < Len(cs)
    THEN Only({<<[kind |-> IF IsSpace(cs[p + 1]) THEN "space"
                           ELSE IF TokenMatch(root, phoneme_root, cs, p) > 0
                           THEN "match" ELSE "grammar",
                  from |-> p, to |-> n.pos, emitted |-> n.words]>>
               \o TokenTrace(root, phoneme_root, txt, cs, bps, n.pos) :
                 n \in {SegmentIter(root, phoneme_root, txt, cs, bps, p, <<>>)}})
    ELSE <<>>

\* the trace of a normal segment under the tries of the conversion
TraceOf(segment) ==
    Only({TokenTrace(segmenter.root, converter.root, segment.text, d.chars,
                     d.byte_positions, 0) : d \in {Decode(segment.text)}})

\* the normal segments of the conversion, once segment_from_segments has run
Segmented == segmenter # NullPtr /\ pc \notin {"start", "parsed"}

PlainSegments ==
    {segments[i] : i \in {j \in DOMAIN segments : segments[j].type = "NORMAL_TEXT"}}

\* C22: every grammar token is a maximal run of code points none of which is
\* a position where the word trie or the phoneme trie has a key that is a
\* prefix of the remaining text: the run ends where either trie matches, at
\* whitespace, or at the end of the segment.
C22_GrammarRunHasNoMatch ==
    Segmented =>
        \A segment \in PlainSegments :
            \A cs \in {Decode(segment.text).chars} :
                \A tr \in {TraceOf(segment)} :
                    \A i \in DOMAIN tr :
                        tr[i].kind = "grammar" =>
                            /\ \A q \in tr[i].from .. (tr[i].to - 1) :
                                /\ ~IsSpace(cs[q + 1])
                                /\ KeyLengthsAt(segmenter.root, cs, q) = {}
                                /\ KeyLengthsAt(converter.root, cs, q) = {}
                            /\ \/ tr[i].to = Len(cs)
                               \/ IsSpace(cs[tr[i].to + 1])
                               \/ KeyLengthsAt(segmenter.root, cs, tr[i].to) # {}
                               \/ KeyLengthsAt(converter.root, cs, tr[i].to) # {}

\* the bytes of the code points [from, to) of a segment's text
SliceOf(txt, bps, from, to) == SubSeq(txt, bps[from + 1] + 1, bps[to + 1])

\* C23: at every token start that is not whitespace: if the word trie has a
\* key that is a prefix there, the token is the longest such key, whatever
\* the phoneme trie holds; otherwise, if the phoneme trie has a key that is a
\* prefix there, the token is the longest such key; the cursor advances by
\* the token's length in code points.
C23_WordTrieFirst ==
    Segmented =>
        \A segment \in PlainSegments :
            \A d \in {Decode(segment.text)} :
                \A tr \in {TraceOf(segment)} :
                    \A i \in DOMAIN tr :
                        \A wl \in {KeyLengthsAt(segmenter.root, d.chars, tr[i].from)},
                           pl \in {KeyLengthsAt(converter.root, d.chars, tr[i].from)} :
                            (tr[i].kind # "space" /\ wl \cup pl # {}) =>
                                /\ tr[i].to = tr[i].from
                                                + (IF wl # {} THEN Max(wl) ELSE Max(pl))
                                /\ tr[i].emitted =
                                     <<SliceOf(segment.text, d.byte_positions,
                                               tr[i].from, tr[i].to)>>

\* on 男はて with the words 男て and 男 the token at 0 is the word 男, although
\* the phoneme trie holds the longer key 男はて; はて follows from the phoneme trie
C23_Witness ==
    /\ Segmented
    /\ text = Str_otoko \o Str_ha \o Str_te
    /\ KeyLengthsAt(segmenter.root, Decode(text).chars, 0) = {1}
    /\ KeyLengthsAt(converter.root, Decode(text).chars, 0) = {1, 3}
    /\ words = <<Str_otoko, Str_ha \o Str_te>>

\* the characters at which the backward scan is to stop
IsStopCp(cp) == IsJapaneseBoundary(cp) \/ IsAsciiBoundary(cp)

\* a kanji among chars[p .. q)
KanjiIn(cs, p, q) ==
    \E j \in p..(q - 1) : ~is_kana_cp(cs[j + 1]) /\ IsKanjiCp(cs[j + 1])

\* the non-kana positions of the scan window in front of the bracket
NonKanaBefore(cs, p, o) == {q \in p..(o - 1) : ~is_kana_cp(cs[q + 1])}

\* C24: the surface span [s, o) of a hint, scanned backward from the last
\* non-kana code point k before the opening bracket: a kana in front of k is
\* included iff a kanji lies between it and the start of the scan window, and
\* the scan otherwise stops behind that kana; it always stops behind Japanese
\* punctuation, another closing bracket, ASCII punctuation or whitespace, so
\* the span holds none of these.
C24_SurfaceSpan ==
    Parsed =>
        \A i \in DOMAIN branches :
            \A cs \in {Decode(text).chars} :
                \A p \in {branches[i].at}, o \in {OpenAt(i)} :
                    (FoundHint(i) /\ NonKanaBefore(cs, p, o) # {}) =>
                        \A k \in {Max(NonKanaBefore(cs, p, o))},
                           s \in {WordStart(cs, p, o)} :
                            /\ p <= s /\ s <= k
                            /\ \A q \in s..(o - 1) : ~IsStopCp(cs[q + 1])
                            /\ \A q \in s..(k - 1) :
                                   is_kana_cp(cs[q + 1]) => KanjiIn(cs, p, q)
                            /\ \/ s = p
                               \/ IsStopCp(cs[s])
                               \/ is_kana_cp(cs[s]) /\ ~KanjiIn(cs, p, s - 1)

\* the node a key's code points lead to
ValueAt(root, key) == root[Decode(key).chars]

\* the value of the most recent insert of `key` among the first n of history h
RECURSIVE LastValue(_, _, _)
LastValue(h, key, n) ==
    IF h[n][1] = key THEN h[n][2] ELSE LastValue(h, key, n - 1)

InsertedKeys == {inserted[i][1] : i \in 1..Len(inserted)}
AddedWords == {added[i] : i \in 1..Len(added)}

\* C25: after any sequence of inserts each inserted key maps to the value of its
\* most recent insert, exactly the inserted keys carry a value, and inserting
\* the last (key, value) once more changes neither the nodes nor the values; the
\* same for the word trie with its marker value
C25_LastWriteWins ==
    /\ \A key \in InsertedKeys :
           ValueAt(ptrie, key) =
               [has_value |-> TRUE, phoneme |-> LastValue(inserted, key, Len(inserted))]
    /\ Keys(ptrie) = {Decode(key).chars : key \in InsertedKeys}
    /\ inserted # <<>> =>
           insert(ptrie, inserted[Len(inserted)][1], inserted[Len(inserted)][2]) = ptrie
    /\ \A word \in AddedWords :
           ValueAt(wtrie, word) = [has_value |-> TRUE, phoneme |-> <<>>]
    /\ Keys(wtrie) = {Decode(word).chars : word \in AddedWords}
    /\ added # <<>> => insert_word(wtrie, added[Len(added)]) = wtrie

\* C26: contains_word(w) returns true exactly when the descent along the code
\* points insert_word decodes from w reaches a node with a value, and returns
\* true for every non-empty word that was inserted
C26_ContainsAfterInsert ==
    asked.name = "contains_word" =>
        /\ asked.ret <=>
               \E cs \in {Decode(asked.word).chars} :
                   cs \in DOMAIN wtrie /\ wtrie[cs].has_value
        /\ (asked.word # <<>> /\ asked.word \in AddedWords) => asked.ret

\* the byte-offset array of a decoding is well formed for the string decoded
OffsetsWithin(str) ==
    \A d \in {Decode(str)} :
        /\ Len(d.byte_positions) = Len(d.chars) + 1
        /\ \A i \in 1..Len(d.chars) : d.byte_positions[i] < d.byte_positions[i + 1]
        /\ d.byte_positions[Len(d.byte_positions)] = Len(str)

\* C27: once parse_furigana_segments has decoded the input (and
\* segment_from_segments each normal segment), the byte offsets are one more than the code points, strictly increasing, and
\* the last one is the byte length of the string decoded
C27_OffsetsWithinInput ==
    (segmenter # NullPtr /\ pc # "start") =>
        /\ OffsetsWithin(text)
        /\ Segmented => \A segment \in PlainSegments : OffsetsWithin(segment.text)

\* every iteration of the main loop of parse_furigana_segments either breaks
\* out of the loop or leaves the cursor further right
ParseAdvances ==
    \A i \in DOMAIN branches :
        \/ branches[i].branch \in {"rest", "unclosed"}
        \/ branches[i].next > branches[i].at

\* every iteration of the loop over a normal segment, the grammar run it may
\* contain included, leaves the cursor further right
SegmentAdvances ==
    Segmented =>
        \A segment \in PlainSegments :
            \A tr \in {TraceOf(segment)} :
                \A i \in DOMAIN tr : tr[i].to > tr[i].from

\* an iteration of the loop of PhonemeConverter::convert moves the cursor right
ConvertAdvances ==
    (pc \in {"convert_word", "convert_text"} /\ pc' = pc) => pos' > pos

\* C28: every iteration of the three main loops advances its cursor by at least
\* one code point, and every conversion runs to completion
C28_ConversionCompletes ==
    /\ [](ParseAdvances /\ SegmentAdvances)
    /\ [][ConvertAdvances]_vars
    /\ <>(pc = "done")

\* a conversion that went through all three loops more than once and returned
C28_Witness ==
    /\ pc = "done"
    /\ segmenter # NullPtr
    /\ Len(branches) >= 2
    /\ Len(words) >= 2
    /\ \E segment \in PlainSegments : \E i \in DOMAIN TraceOf(segment) :
           TraceOf(segment)[i].kind = "grammar"
    /\ Len(result) >= 2

\* C29: an init that returns 0 leaves no converter and a non-empty last error,
\* also when a dictionary was loaded before it; from then on, until an init
\* returns 1, there is no converter and jpn_phoneme_convert returns -1
C29_FailedInitUninitialized ==
    /\ (call.name \in {"init", "init_from_memory"} /\ call.ret = 0) =>
           /\ ffi.converter = NullPtr
           /\ ffi.last_error # ""
    /\ discarded =>
           /\ ffi.converter = NullPtr
           /\ call.name = "convert" => call.ret = -1

\* a conversion refused after a failed init replaced a loaded dictionary
C29_Witness ==
    /\ discarded
    /\ call.name = "convert"
    /\ call.ret = -1

\* the words the iterations of a trace emitted, in order
RECURSIVE EmittedBy(_)
EmittedBy(tr) ==
    IF tr = <<>> THEN <<>> ELSE Head(tr).emitted \o EmittedBy(Tail(tr))

\* the words the segments contribute: a hint its reading, a normal segment
\* what its iterations emitted
RECURSIVE WordsOf(_)
WordsOf(segs) ==
    IF segs = <<>> THEN <<>>
    ELSE (IF Head(segs).type = "FURIGANA_HINT" THEN <<Head(segs).reading>>
          ELSE EmittedBy(TraceOf(Head(segs)))) \o WordsOf(Tail(segs))

\* the bytes of the code points [from, to) that lie within the text
BytesOf(txt, bps, from, to) ==
    SubSeq(txt, bps[from + 1] + 1, Min(bps[to + 1], Len(txt)))

\* C30: the iterations over a normal segment consume its code points from the
\* first to the last without gap or overlap; an iteration either skips one
\* ASCII whitespace code point and emits nothing, or emits exactly the bytes
\* of the code points it consumed, which are not empty; the words are these
\* tokens in order
C30_TokensPartitionSegment ==
    Segmented =>
        /\ words = WordsOf(segments)
        /\ \A segment \in PlainSegments :
               \A d \in {Decode(segment.text)} :
                   \A tr \in {TraceOf(segment)} :
                       /\ (tr = <<>>) <=> (d.chars = <<>>)
                       /\ tr # <<>> => /\ tr[1].from = 0
                                       /\ tr[Len(tr)].to = Len(d.chars)
                       /\ \A i \in 1..(Len(tr) - 1) : tr[i + 1].from = tr[i].to
                       /\ \A i \in DOMAIN tr :
                              /\ tr[i].to > tr[i].from
                              /\ tr[i].kind = "space" =>
                                     /\ tr[i].to = tr[i].from + 1
                                     /\ IsSpace(d.chars[tr[i].from + 1])
                                     /\ tr[i].emitted = <<>>
                              /\ tr[i].kind # "space" =>
                                     /\ tr[i].emitted =
                                          <<BytesOf(segment.text, d.byte_positions,
                                                    tr[i].from, tr[i].to)>>
                                     /\ tr[i].emitted[1] # <<>>
                                     /\ \A q \in tr[i].from .. (tr[i].to - 1) :
                                            ~IsSpace(d.chars[q + 1])

\* a normal segment in which one iteration skipped a space, one emitted a
\* match and one a grammar run
C30_Witness ==
    /\ Segmented
    /\ \E segment \in PlainSegments :
           \E tr \in {TraceOf(segment)} :
               /\ \E i \in DOMAIN tr : tr[i].kind = "space"
               /\ \E i \in DOMAIN tr : tr[i].kind = "match"
               /\ \E i \in DOMAIN tr : tr[i].kind = "grammar"
    /\ Len(words) >= 2

=============================================================================
